---- MODULE Spec2Model ----
(***************************************************************************)
(* RidePulse data-synchronisation pipeline: the snapshot writer            *)
(* (_write_json) and its readers (load_live_json / load_calendar_json),    *)
(* the Efteling connector's WIS response cache (_fetch_wis), and the two   *)
(* scheduler jobs (fetch_all_live / fetch_all_calendars).                  *)
(***************************************************************************)
EXTENDS Integers, Sequences, FiniteSets, TLC

\* ------------------------------------------------------------------ bounds
DocChunks == 2
MaxDocs == 2

\* ------------------------------------------------------- registry and paths
\* app/parks/__init__.py: the registry, in insertion order
PARKS == <<"efteling", "disneylandparis", "europapark", "phantasialand">>

ParkIds == {PARKS[i] : i \in 1..Len(PARKS)}

\* The identifiers get_park_id accepts; any other first path segment gives 404.
SUPPORTED_PARKS == {"efteling", "disneylandparis", "europapark", "phantasialand"}

\* The two recurring jobs of start_scheduler; each writes its own file.
Jobs == {"live", "calendar"}

FinalNames == {"live.json", "calendar.json"}

\* final = park_dir / filename
FinalPath(p, f) == <<p, f>>

\* A writer that opens the final path itself instead of the temporary one.
TmpPathInPlace(p, f) == <<p, f>>

\* tmp = park_dir / f"{filename}.tmp"
TmpPath(p, f) == <<p, IF f = "live.json" THEN "live.json.tmp" ELSE "calendar.json.tmp">>

\* ------------------------------------------------------------- file system
\* fs.dirs  : the park directories that exist under DATA_DIR
\* fs.files : path -> whether a file of that name exists, and the chunks in it
NoDoc == [kind |-> "none"]

\* json.dump(data, f) emits the document in DocChunks successive writes
DocOf(d) == [i \in 1..DocChunks |-> <<d, i>>]

IsComplete(content) == Len(content) = DocChunks /\ content = DocOf(content[1][1])

\* json.load: the parsed document, or a decode error on anything else
Parse(content) == IF Len(content) > 0 /\ IsComplete(content)
                  THEN [kind |-> "doc", doc |-> content[1][1]]
                  ELSE [kind |-> "invalid", doc |-> NoDoc]

NoFile == [exists |-> FALSE, data |-> <<>>]

Exists(fsys, path) == fsys.files[path].exists

Content(fsys, path) == fsys.files[path].data

\* park_dir.mkdir(parents=True, exist_ok=True)
FsMkdir(fsys, p) == [fsys EXCEPT !.dirs = @ \cup {p}]

\* A mkdir without exist_ok: FileExistsError when the directory is there.
FsMkdirRaisesOnExisting(fsys, p) == p \in fsys.dirs

\* exist_ok=True: no FileExistsError, whether or not the directory is there
FsMkdirRaises(fsys, p) == FALSE

\* A writer opening in append mode: an existing file keeps its content.
FsOpenAppend(fsys, path) == [fsys EXCEPT !.files[path] = [exists |-> TRUE, data |-> @.data]]

\* open(tmp, "w"): create or truncate
FsOpenW(fsys, path) == [fsys EXCEPT !.files[path] = [exists |-> TRUE, data |-> <<>>]]

\* one write of json.dump reaching the open file
FsWrite(fsys, path, chunk) == [fsys EXCEPT !.files[path].data = Append(@, chunk)]

\* tmp.rename(final): one atomic replacement of the directory entry
\* (renaming a file onto itself does nothing)
FsRename(fsys, from, to) == IF from = to THEN fsys
                            ELSE [fsys EXCEPT !.files[to] = fsys.files[from],
                                              !.files[from] = NoFile]

\* A file that is open when its name is replaced stays readable with the
\* content it had: the reader's descriptor then no longer follows the path.
DetachOnRename(rd, fsys, from, to) == IF rd.pc = "read" /\ ~rd.detached /\ rd.path = to /\ from # to
                                      THEN [rd EXCEPT !.detached = TRUE, !.held = Content(fsys, to)]
                                      ELSE rd

\* ---------------------------------------------------------------- state
VARIABLES fs,         \* the files under DATA_DIR
          w,          \* the _write_json call in progress (it is synchronous: one at a time)
          committed,  \* per final path: the document last renamed onto it
          wlog,       \* how the last _write_json call ended
          r,          \* the load_*_json call in progress
          target      \* the final path whose writes and reads are interleaved

fsVars == <<fs, w, committed, wlog, r, target>>

AllPaths == ParkIds \X (FinalNames \cup {"live.json.tmp", "calendar.json.tmp"})

FinalPaths == ParkIds \X FinalNames

WIdle == [pc |-> "idle", park |-> "", file |-> "", data |-> NoDoc, pos |-> 0, leftover |-> FALSE]

WNone == [park |-> "", file |-> "", outcome |-> "none", leftover |-> FALSE]

RIdle == [pc |-> "idle", path |-> <<"", "">>, detached |-> FALSE, held |-> <<>>, buf |-> <<>>,
          expect |-> NoDoc, result |-> [kind |-> "none", doc |-> NoDoc]]

InitFS == /\ fs = [dirs |-> {}, files |-> [q \in AllPaths |-> NoFile]]
          /\ w = WIdle
          /\ committed = [q \in FinalPaths |-> NoDoc]
          /\ wlog = WNone
          /\ r = RIdle
          /\ target = <<"", "">>

\* ------------------------------------------------ _write_json, step by step
\* _write_json(park_id, filename, data) is entered
WriteJsonCall(p, f, d) == /\ w.pc = "idle"
                          /\ w' = [WIdle EXCEPT !.pc = "mkdir", !.park = p, !.file = f, !.data = d]
                          /\ UNCHANGED <<fs, committed, wlog, r, target>>

WMkdir == /\ w.pc = "mkdir"
          /\ fs' = FsMkdir(fs, w.park)
          /\ w' = [w EXCEPT !.pc = "open"]
          /\ UNCHANGED <<committed, wlog, r, target>>

WOpen == /\ w.pc = "open"
         /\ LET tmp == TmpPath(w.park, w.file)
            IN  /\ fs' = FsOpenW(fs, tmp)
                /\ w' = [w EXCEPT !.pc = "dump", !.leftover = Len(Content(fs, tmp)) > 0]
         /\ UNCHANGED <<committed, wlog, r, target>>

\* json.dump: the next chunk reaches the file; the with-block closes after the last
WDump == /\ w.pc = "dump"
         /\ fs' = FsWrite(fs, TmpPath(w.park, w.file), DocOf(w.data)[w.pos + 1])
         /\ w' = [w EXCEPT !.pos = @ + 1,
                           !.pc = IF w.pos + 1 = DocChunks THEN "rename" ELSE "dump"]
         /\ UNCHANGED <<committed, wlog, r, target>>

WRename == /\ w.pc = "rename"
           /\ LET tmp == TmpPath(w.park, w.file)
                  final == FinalPath(w.park, w.file)
              IN  /\ fs' = FsRename(fs, tmp, final)
                  /\ r' = DetachOnRename(r, fs, tmp, final)
                  /\ committed' = [committed EXCEPT ![final] = w.data]
           /\ wlog' = [park |-> w.park, file |-> w.file, outcome |-> "ok", leftover |-> w.leftover]
           /\ w' = WIdle
           /\ UNCHANGED target

\* An OSError at the pending step, or the process dying there: the call ends,
\* the files stay as they are.
WAbort == /\ w.pc \in {"mkdir", "open", "dump", "rename"}
          /\ wlog' = [park |-> w.park, file |-> w.file, outcome |-> w.pc, leftover |-> w.leftover]
          /\ w' = WIdle
          /\ UNCHANGED <<fs, committed, r, target>>

\* --------------------------------------- load_live_json / load_calendar_json
\* A loader that opens the file without looking whether it exists.
RExistsNoCheck(p, f) == /\ r.pc = "idle"
                        /\ r' = [RIdle EXCEPT !.pc = "open", !.path = FinalPath(p, f)]
                        /\ UNCHANGED <<fs, w, committed, wlog, target>>

\* if not path.exists(): raise HTTPException(503)
RExists(p, f) == /\ r.pc = "idle"
                 /\ r' = IF ~Exists(fs, FinalPath(p, f))
                         THEN [RIdle EXCEPT !.pc = "done", !.path = FinalPath(p, f),
                                            !.result = [kind |-> "503", doc |-> NoDoc]]
                         ELSE [RIdle EXCEPT !.pc = "open", !.path = FinalPath(p, f)]
                 /\ UNCHANGED <<fs, w, committed, wlog, target>>

\* open(path, "r")
ROpen == /\ r.pc = "open"
         /\ r' = IF ~Exists(fs, r.path)
                 THEN [r EXCEPT !.pc = "done", !.result = [kind |-> "missing", doc |-> NoDoc]]
                 ELSE [r EXCEPT !.pc = "read", !.expect = committed[r.path]]
         /\ UNCHANGED <<fs, w, committed, wlog, target>>

\* What the reader's open descriptor holds now.
OpenFile(rd, fsys) == IF rd.detached THEN rd.held ELSE Content(fsys, rd.path)

\* json.load(f): read to end of file, then decode
RRead == /\ r.pc = "read"
         /\ r' = IF Len(r.buf) < Len(OpenFile(r, fs))
                 THEN [r EXCEPT !.buf = Append(@, OpenFile(r, fs)[Len(r.buf) + 1])]
                 ELSE [r EXCEPT !.pc = "done", !.detached = FALSE, !.held = <<>>, !.buf = <<>>,
                                !.result = Parse(r.buf)]
         /\ UNCHANGED <<fs, w, committed, wlog, target>>

RReturn == /\ r.pc = "done"
           /\ r' = RIdle
           /\ UNCHANGED <<fs, w, committed, wlog, target>>

\* ------------------------------------------------------------ JSON values
\* A value of the upstream document whose type the connector does not control:
\* null, an integer, a string (its characters), an object or a list.
JNull == [t |-> "null"]

JInt(n) == [t |-> "int", v |-> n]

JStr(chars) == [t |-> "str", v |-> chars]

JObj(fields) == [t |-> "obj", v |-> fields]

JList(items) == [t |-> "list", v |-> items]

\* Python truth value: None, 0, "", {} and [] are false
Truthy(x) == CASE x.t = "null" -> FALSE
               [] x.t = "int" -> x.v # 0
               [] x.t = "str" -> x.v # <<>>
               [] x.t = "obj" -> DOMAIN x.v # {}
               [] OTHER -> x.v # <<>>

\* dict.get(key, default)
GetOr(d, key, default) == IF key \in DOMAIN d THEN d[key] ELSE default

\* str.lower()
Lower(cs) == LET upper == <<"A", "B", "C", "D", "E", "F", "G", "H", "I", "J", "K", "L", "M", "N", "O", "P", "Q", "R", "S", "T", "U", "V", "W", "X", "Y", "Z">>
                 lower == <<"a", "b", "c", "d", "e", "f", "g", "h", "i", "j", "k", "l", "m", "n", "o", "p", "q", "r", "s", "t", "u", "v", "w", "x", "y", "z">>
             IN  [i \in 1..Len(cs) |-> IF \E k \in 1..26 : upper[k] = cs[i]
                                       THEN lower[CHOOSE k \in 1..26 : upper[k] = cs[i]]
                                       ELSE cs[i]]

\* str.strip()
Strip(cs) == LET kept == {i \in 1..Len(cs) : cs[i] \notin {" ", "\t", "\n"}}
             IN  IF kept = {} THEN <<>>
                 ELSE SubSeq(cs, CHOOSE i \in kept : \A j \in kept : i <= j,
                                 CHOOSE i \in kept : \A j \in kept : i >= j)

\* the value of a decimal digit; 10 for any other character
DigitVal(c) == LET digits == <<"0", "1", "2", "3", "4", "5", "6", "7", "8", "9">>
               IN  IF \E i \in 1..10 : digits[i] = c
                   THEN (CHOOSE i \in 1..10 : digits[i] = c) - 1
                   ELSE 10

RECURSIVE DigitsVal(_)
DigitsVal(cs) == IF cs = <<>> THEN 0 ELSE 10 * DigitsVal(SubSeq(cs, 1, Len(cs) - 1)) + DigitVal(cs[Len(cs)])

Unsigned(cs) == IF cs # <<>> /\ Head(cs) \in {"-", "+"} THEN Tail(cs) ELSE cs

\* int(x) raises ValueError (a string that is not a number) or TypeError (not a
\* number or string at all)
IntFails(x) == CASE x.t = "int" -> FALSE
                 [] x.t = "str" -> \/ Unsigned(Strip(x.v)) = <<>>
                                   \/ \E i \in 1..Len(Unsigned(Strip(x.v))) : DigitVal(Unsigned(Strip(x.v))[i]) = 10
                 [] OTHER -> TRUE

\* int(x) where it returns
IntOf(x) == IF x.t = "int" THEN x.v
            ELSE IF Strip(x.v) # <<>> /\ Head(Strip(x.v)) = "-"
                 THEN 0 - DigitsVal(Unsigned(Strip(x.v)))
                 ELSE DigitsVal(Unsigned(Strip(x.v)))

\* The strings the connector knows (states, markers, aliases) and the
\* identifiers used in the documents below.
Word == [open |-> <<"o", "p", "e", "n">>,
         nognietopen |-> <<"n", "o", "g", "n", "i", "e", "t", "o", "p", "e", "n">>,
         storing |-> <<"s", "t", "o", "r", "i", "n", "g">>,
         tijdelijkbuitenbedrijf |-> <<"t", "i", "j", "d", "e", "l", "i", "j", "k", "b", "u", "i", "t", "e", "n", "b", "e", "d", "r", "i", "j", "f">>,
         inonderhoud |-> <<"i", "n", "o", "n", "d", "e", "r", "h", "o", "u", "d">>,
         buitenbedrijf |-> <<"b", "u", "i", "t", "e", "n", "b", "e", "d", "r", "i", "j", "f">>,
         gesloten |-> <<"g", "e", "s", "l", "o", "t", "e", "n">>,
         wachtrijgesloten |-> <<"w", "a", "c", "h", "t", "r", "i", "j", "g", "e", "s", "l", "o", "t", "e", "n">>,
         walkin |-> <<"w", "a", "l", "k", "i", "n">>,
         enabled |-> <<"e", "n", "a", "b", "l", "e", "d">>,
         full |-> <<"f", "u", "l", "l">>,
         singlerider |-> <<"s", "i", "n", "g", "l", "e", "r", "i", "d", "e", "r">>,
         sr |-> <<"s", "r">>,
         droomvluchtstandby |-> <<"d", "r", "o", "o", "m", "v", "l", "u", "c", "h", "t", "s", "t", "a", "n", "d", "b", "y">>,
         droomvlucht |-> <<"d", "r", "o", "o", "m", "v", "l", "u", "c", "h", "t">>,
         python |-> <<"p", "y", "t", "h", "o", "n">>,
         baron1898 |-> <<"b", "a", "r", "o", "n", "1", "8", "9", "8">>,
         raveleijn |-> <<"r", "a", "v", "e", "l", "e", "i", "j", "n">>,
         polles |-> <<"p", "o", "l", "l", "e", "s">>,
         efteldingen |-> <<"e", "f", "t", "e", "l", "d", "i", "n", "g", "e", "n">>]

\* ------------------------------------------------- upstream WIS documents
\* One AttractionInfo entry of the WIS response.
Entry(id, type, state, wait) == [Id |-> id, Type |-> type, State |-> JStr(state),
                                 WaitingTime |-> JInt(wait)]

\* The upstream documents resp.json() can yield.
WisPayloads == {
    [AttractionInfo |-> <<Entry(Word.python, "Attraction", Word.open, 10),
                          Entry(Word.baron1898, "Attracties", Word.storing, 0),
                          Entry(Word.raveleijn, "Shows en Entertainment", <<>>, 0),
                          Entry(Word.polles, "Horeca", <<>>, 0),
                          Entry(Word.efteldingen, "Souvenirwinkel", <<>>, 0)>>],
    [AttractionInfo |-> <<Entry(Word.python, "Attraction", Word.gesloten, 0)>>],
    [AttractionInfo |-> <<[Type |-> "Attraction", State |-> JStr(Word.open), WaitingTime |-> JInt(5)]>>] }

\* --------------------------------------------- EftelingConnector._fetch_wis
None == [kind |-> "None"]

NoTime == -1

WIS_CACHE_SECONDS == 60

MaxClock == 60

NCallers == 2

\* How far the clock moves in one step.
ClockSteps == {20, 60}

VARIABLES clock,      \* datetime.now(timezone.utc), in seconds
          cache,      \* self._wis_cache
          cacheTime,  \* self._wis_cache_time
          f,          \* per caller: the _fetch_wis call in progress
          lastFetch   \* the last upstream fetch that succeeded: its call's timestamp, its payload

cacheVars == <<clock, cache, cacheTime, f, lastFetch>>

\* Caller 0 is the live job; the others call the connector on their own.
Callers == 0..NCallers

FIdle == [pc |-> "idle", now |-> 0, requested |-> FALSE, failed |-> FALSE,
          seenCache |-> None, seenTime |-> NoTime, seenFetch |-> [time |-> NoTime, data |-> None],
          result |-> [kind |-> "none", data |-> None]]

InitCache == /\ clock = 0
             /\ cache = None
             /\ cacheTime = NoTime
             /\ f = [c \in Callers |-> FIdle]
             /\ lastFetch = [time |-> NoTime, data |-> None]

\* Time passes.
Advance(d) == /\ clock + d <= MaxClock
              /\ clock' = clock + d
              /\ UNCHANGED <<cache, cacheTime, f, lastFetch>>

\* A cache test that still accepts an entry exactly WIS_CACHE_SECONDS old.
CacheFreshInclusive(now) == /\ cache # None
                            /\ cacheTime # NoTime
                            /\ now - cacheTime <= WIS_CACHE_SECONDS

\* self._wis_cache is not None and self._wis_cache_time is not None
\* and (now - self._wis_cache_time).total_seconds() < self.WIS_CACHE_SECONDS
CacheFresh(now) == /\ cache # None
                   /\ cacheTime # NoTime
                   /\ now - cacheTime < WIS_CACHE_SECONDS

\* now = datetime.now(timezone.utc); a fresh cache is returned at once,
\* otherwise the request is sent and the call waits for the response
FetchWisCheck(c) == /\ f[c].pc = "idle"
                    /\ f' = [f EXCEPT ![c] =
                               [FIdle EXCEPT !.now = clock,
                                             !.seenCache = cache, !.seenTime = cacheTime,
                                             !.seenFetch = lastFetch,
                                             !.pc = IF CacheFresh(clock) THEN "done" ELSE "await",
                                             !.requested = ~CacheFresh(clock),
                                             !.result = IF CacheFresh(clock)
                                                        THEN [kind |-> "payload", data |-> cache]
                                                        ELSE [kind |-> "none", data |-> None]]]
                    /\ UNCHANGED <<clock, cache, cacheTime, lastFetch>>

\* self._wis_cache_time = now  (the time the call started)
CacheStamp(c) == f[c].now

\* resp.raise_for_status() passed and resp.json() gave data
FetchWisOk(c, data) == /\ f[c].pc = "await"
                       /\ cache' = data
                       /\ cacheTime' = CacheStamp(c)
                       /\ lastFetch' = [time |-> f[c].now, data |-> data]
                       /\ f' = [f EXCEPT ![c].pc = "done",
                                         ![c].result = [kind |-> "payload", data |-> data]]
                       /\ UNCHANGED clock

\* A connector that answers a failed refresh with whatever it has cached.
FailureResultStale(c) == IF cache # None THEN [kind |-> "payload", data |-> cache]
                         ELSE [kind |-> "raised", data |-> None]

\* the exception of client.get / raise_for_status / resp.json leaves _fetch_wis
FailureResult(c) == [kind |-> "raised", data |-> None]

\* network error, timeout or non-2xx status: nothing is assigned
FetchWisFail(c) == /\ f[c].pc = "await"
                   /\ f' = [f EXCEPT ![c].pc = "done", ![c].failed = TRUE,
                                     ![c].result = FailureResult(c)]
                   /\ UNCHANGED <<clock, cache, cacheTime, lastFetch>>

\* The caller has its answer.
FetchWisReturn(c) == /\ f[c].pc = "done"
                     /\ f' = [f EXCEPT ![c] = FIdle]
                     /\ UNCHANGED <<clock, cache, cacheTime, lastFetch>>

\* No other call of _fetch_wis is under way.
Alone(c) == \A d \in Callers \ {c} : f[d].pc = "idle"

\* ------------------------------------------------ connector: live categories
\* _map_state raises AttributeError on a value that is neither a string nor false
MapStateRaises(raw) == Truthy(raw) /\ raw.t # "str"

\* A lookup of the raw string as it comes.
MapStateNoNormalise(raw) == LET state == IF Truthy(raw) THEN raw.v ELSE <<>>
                            IN  CASE state = Word.open -> "open"
                                  [] state = Word.nognietopen -> "open_soon"
                                  [] state \in {Word.storing, Word.tijdelijkbuitenbedrijf} -> "breakdown"
                                  [] state = Word.inonderhoud -> "maintenance"
                                  [] OTHER -> "closed"

\* _map_state: state = (raw or "").lower().strip(), then the lookup table;
\* a string that is not in the table gives closed
MapState(raw) == LET state == Strip(Lower(IF Truthy(raw) THEN raw.v ELSE <<>>))
                 IN  CASE state = Word.open -> "open"
                       [] state = Word.nognietopen -> "open_soon"
                       [] state \in {Word.storing, Word.tijdelijkbuitenbedrijf} -> "breakdown"
                       [] state = Word.inonderhoud -> "maintenance"
                       [] state \in {Word.buitenbedrijf, Word.gesloten, Word.wachtrijgesloten, <<>>} -> "closed"
                       [] OTHER -> "closed"

IsAttraction(e) == "Type" \in DOMAIN e /\ e.Type \in {"Attraction", "Attracties"}

\* str.replace(sub, ""): every occurrence of sub, from the left, taken out
RECURSIVE Remove(_, _)
Remove(cs, sub) == IF Len(cs) < Len(sub) THEN cs
                   ELSE IF SubSeq(cs, 1, Len(sub)) = sub
                        THEN Remove(SubSeq(cs, Len(sub) + 1, Len(cs)), sub)
                        ELSE <<cs[1]>> \o Remove(Tail(cs), sub)

\* single_rider_map[id]: for an Id that contains "singlerider" or ends with
\* "sr", the first key whose lower-cased form is the Id without the markers;
\* the empty string when the Id is no such Id or no key matches
SingleRiderParent(entries, id) ==
    LET lower == Lower(id)
        marked == \/ Remove(lower, Word.singlerider) # lower
                  \/ Len(lower) >= 2 /\ SubSeq(lower, Len(lower) - 1, Len(lower)) = Word.sr
        parent_id == Remove(Remove(lower, Word.singlerider), Word.sr)
        hits == {i \in 1..Len(entries) : Lower(entries[i].Id) = parent_id}
    IN  IF marked /\ hits # {}
        THEN entries[CHOOSE i \in hits : \A j \in hits : i <= j].Id
        ELSE <<>>

\* sr_id = next((k for k, v in single_rider_map.items() if v == entry_id), None),
\* as the position of that entry in the document; 0 for None
SingleRiderIndex(entries, id) ==
    LET subs == {i \in 1..Len(entries) : /\ SingleRiderParent(entries, entries[i].Id) # <<>>
                                         /\ SingleRiderParent(entries, entries[i].Id) = id}
    IN  IF subs = {} THEN 0 ELSE CHOOSE i \in subs : \A j \in subs : i <= j

\* vq_raw.get(...) on a value that is not an object, or .lower() on a State that
\* is not a string, raises AttributeError
VirtualQueueRaises(e) == /\ "VirtualQueue" \in DOMAIN e
                         /\ Truthy(e.VirtualQueue)
                         /\ \/ e.VirtualQueue.t # "obj"
                            \/ /\ Truthy(GetOr(e.VirtualQueue.v, "State", JNull))
                               /\ GetOr(e.VirtualQueue.v, "State", JNull).t # "str"

\* all_entries = {e["Id"]: e for e in data.get("AttractionInfo", [])} raises
\* KeyError on an entry without Id; the loop raises on an attraction whose
\* State or VirtualQueue, or whose single-rider entry's State, has the wrong
\* type; nothing in fetch_wait_times catches it
WaitTimesRaises(data) ==
    LET entries == data.AttractionInfo
    IN  IF \E i \in 1..Len(entries) : "Id" \notin DOMAIN entries[i] THEN TRUE
        ELSE \E i \in 1..Len(entries) :
                /\ IsAttraction(entries[i])
                /\ SingleRiderParent(entries, entries[i].Id) = <<>>
                /\ \/ MapStateRaises(GetOr(entries[i], "State", JStr(<<>>)))
                   \/ /\ SingleRiderIndex(entries, entries[i].Id) # 0
                      /\ MapStateRaises(GetOr(entries[SingleRiderIndex(entries, entries[i].Id)],
                                              "State", JStr(<<>>)))
                   \/ VirtualQueueRaises(entries[i])

\* A wait that is kept whatever the status.
WaitTimeAnyStatus(status, raw) == IF IntFails(IF Truthy(raw) THEN raw ELSE JInt(0)) THEN JNull
                                  ELSE JInt(IntOf(IF Truthy(raw) THEN raw ELSE JInt(0)))

\* wait_time = None; if status == open: try int(entry.get("WaitingTime") or 0)
\* except (ValueError, TypeError): None
WaitTime(status, raw) == IF status # "open" THEN JNull
                         ELSE IF IntFails(IF Truthy(raw) THEN raw ELSE JInt(0)) THEN JNull
                         ELSE JInt(IntOf(IF Truthy(raw) THEN raw ELSE JInt(0)))

VQ_WINDOW_MINUTES == 15

\* A truncation that keeps the seconds.
TruncateKeepsSeconds(now) == now

\* datetime.now(PARK_TIMEZONE).replace(second=0, microsecond=0), in seconds
TruncateToMinute(now) == now - (now % 60)

\* try: wait_min = int(vq_wait or 0) except (ValueError, TypeError): wait_min = 0
WaitMin(raw) == IF IntFails(IF Truthy(raw) THEN raw ELSE JInt(0)) THEN 0
                ELSE IntOf(IF Truthy(raw) THEN raw ELSE JInt(0))

VirtualQueueInfo(state, start, end) == [kind |-> "VirtualQueueInfo", available |-> TRUE, state |-> state,
                                        return_start |-> start, return_end |-> end]

\* A window that ends a fixed time after now instead of after its start.
ReturnEndFromNow(now, start) == TruncateToMinute(now) + VQ_WINDOW_MINUTES * 60

\* return_end = return_start + timedelta(minutes=VQ_WINDOW_MINUTES)
ReturnEnd(now, start) == start + VQ_WINDOW_MINUTES * 60

\* A queue-state table in which walkin counts as available.
QueueStateWalkinAvailable(raw) == CASE raw \in {Word.walkin, Word.enabled} -> "available"
                                    [] raw = Word.full -> "full"
                                    [] OTHER -> "closed"

\* the if / elif chain on vq_state_raw
QueueState(raw) == CASE raw = Word.walkin -> "temporarily_full"
                     [] raw = Word.enabled -> "available"
                     [] raw = Word.full -> "full"
                     [] OTHER -> "closed"

\* vq_raw = entry.get("VirtualQueue"); if vq_raw: vq_state_raw = (State or "").lower()
VirtualQueueOf(e, now) ==
    IF "VirtualQueue" \notin DOMAIN e \/ ~Truthy(e.VirtualQueue) THEN None
    ELSE LET vq == e.VirtualQueue.v
             raw == GetOr(vq, "State", JNull)
             state == QueueState(Lower(IF Truthy(raw) THEN raw.v ELSE <<>>))
             return_start == TruncateToMinute(now) + 60 * WaitMin(GetOr(vq, "WaitingTime", JNull))
         IN  IF state = "available"
             THEN VirtualQueueInfo("available", JInt(return_start), JInt(ReturnEnd(now, return_start)))
             ELSE VirtualQueueInfo(state, JNull, JNull)

\* resolved_id = special_merge.get(entry_id, entry_id)
ResolvedId(id) == IF id = Word.droomvluchtstandby THEN Word.droomvlucht ELSE id

\* single_rider: SingleRiderInfo(available=True, status, wait_time) from the
\* entry's single-rider entry, or None
SingleRiderOf(entries, id) ==
    IF SingleRiderIndex(entries, id) = 0 THEN None
    ELSE LET sr == entries[SingleRiderIndex(entries, id)]
             sr_status == MapState(GetOr(sr, "State", JStr(<<>>)))
         IN  [kind |-> "SingleRiderInfo", available |-> TRUE,
              status |-> IF sr_status = "open" THEN "open" ELSE "closed",
              wait_time |-> WaitTime(sr_status, GetOr(sr, "WaitingTime", JNull))]

\* one AttractionLive
AttractionLive(e, entries, now) ==
    [id |-> ResolvedId(e.Id),
     status |-> MapState(GetOr(e, "State", JStr(<<>>))),
     wait_time |-> WaitTime(MapState(GetOr(e, "State", JStr(<<>>))), GetOr(e, "WaitingTime", JNull)),
     single_rider |-> SingleRiderOf(entries, e.Id),
     virtual_queue |-> VirtualQueueOf(e, now)]

\* fetch_wait_times after a successful _fetch_wis, where it returns (payloads
\* without repeated Ids): the attractions that are not in skip_ids
WaitTimesOf(data, now) ==
    LET Emitted(e) == IsAttraction(e) /\ SingleRiderParent(data.AttractionInfo, e.Id) = <<>>
        sel == SelectSeq(data.AttractionInfo, Emitted)
    IN  [i \in 1..Len(sel) |-> AttractionLive(sel[i], data.AttractionInfo, now)]

\* entry.get("Id", "").lower()
VenueId(e) == IF "Id" \in DOMAIN e THEN Lower(e.Id) ELSE <<>>

\* _parse_dt: None (NoTime) for a value that is missing, empty or not a
\* date-time; date-times are written here as the time of day "HH:MM" of the
\* current day and parsed to seconds
ParseDt(value) ==
    IF ~Truthy(value) \/ value.t # "str" \/ Len(value.v) # 5 THEN NoTime
    ELSE IF \E i \in {1, 2, 4, 5} : DigitVal(value.v[i]) > 9 THEN NoTime
    ELSE IF value.v[3] # ":" THEN NoTime
    ELSE 3600 * DigitsVal(SubSeq(value.v, 1, 2)) + 60 * DigitsVal(SubSeq(value.v, 4, 5))

\* list.sort(key=...) / sorted(..., key=...): ascending by key, entries with
\* equal keys in their former order; keys[i] is the key of seq[i]
SortBy(seq, keys) ==
    LET Place(i) == 1 + Cardinality({j \in 1..Len(seq) :
                                        \/ keys[j] < keys[i]
                                        \/ keys[j] = keys[i] /\ j < i})
    IN  [p \in 1..Len(seq) |-> seq[CHOOSE i \in 1..Len(seq) : Place(i) = p]]

\* has_upcoming = any(st.start_date_time >= now_park for st in show_times)
HasUpcoming(show_times, now) == \E i \in 1..Len(show_times) : show_times[i].start_date_time >= now

\* show_times: ShowTimes + PastShowTimes, those whose start and end both parse,
\* sorted by start
ShowTimesOf(e) ==
    LET listed(name) == IF Truthy(GetOr(e, name, JNull)) THEN GetOr(e, name, JNull).v ELSE <<>>
        raw_times == listed("ShowTimes") \o listed("PastShowTimes")
        Parsed(t) == [start_date_time |-> ParseDt(GetOr(t.v, "StartDateTime", JNull)),
                      end_date_time |-> ParseDt(GetOr(t.v, "EndDateTime", JNull))]
        Both(t) == Parsed(t).start_date_time # NoTime /\ Parsed(t).end_date_time # NoTime
        kept == SelectSeq(raw_times, Both)
    IN  SortBy([i \in 1..Len(kept) |-> Parsed(kept[i])],
               [i \in 1..Len(kept) |-> Parsed(kept[i]).start_date_time])

ShowsOf(data, now) ==
    LET IsShow(e) == "Type" \in DOMAIN e /\ e.Type = "Shows en Entertainment"
        sel == SelectSeq(data.AttractionInfo, IsShow)
    IN  [i \in 1..Len(sel) |->
            [id |-> VenueId(sel[i]),
             status |-> IF HasUpcoming(ShowTimesOf(sel[i]), now) THEN "open" ELSE "closed",
             show_times |-> ShowTimesOf(sel[i])]]

\* fetch_restaurants (Type "Horeca") and fetch_shops (Type "Souvenirwinkel")
VenuesOf(data, type) == LET IsOfType(e) == "Type" \in DOMAIN e /\ e.Type = type
                            sel == SelectSeq(data.AttractionInfo, IsOfType)
                        IN  [i \in 1..Len(sel) |-> [id |-> VenueId(sel[i])]]

\* The four operations of _fetch_park_live, in the order it awaits them.
Categories == <<"attractions", "shows", "restaurants", "shops">>

CategoryOf(cat, data, now) == CASE cat = 1 -> WaitTimesOf(data, now)
                                [] cat = 2 -> ShowsOf(data, now)
                                [] cat = 3 -> VenuesOf(data, "Horeca")
                                [] OTHER -> VenuesOf(data, "Souvenirwinkel")

CategoryRaises(cat, data) == cat = 1 /\ WaitTimesRaises(data)

\* A derivation in which only an open attraction makes the park open.
DeriveParkStatusOpenOnly(attractions) == IF Len(attractions) = 0 THEN "unknown"
                                         ELSE IF \E i \in 1..Len(attractions) : attractions[i].status = "open"
                                              THEN "open" ELSE "closed"

\* _derive_park_status
DeriveParkStatus(attractions) == IF Len(attractions) = 0 THEN "unknown"
                                 ELSE IF \E i \in 1..Len(attractions) :
                                           attractions[i].status \in {"open", "open_soon"}
                                      THEN "open" ELSE "closed"

\* ------------------------------------------------------ _write_json as a whole
\* The file-system steps of one call: mkdir, open, DocChunks writes, rename.
WriteSteps == DocChunks + 3

WriteStep(fsys, p, fname, d, k) == CASE k = 1 -> FsMkdir(fsys, p)
                                 [] k = 2 -> FsOpenW(fsys, TmpPath(p, fname))
                                 [] k = WriteSteps -> FsRename(fsys, TmpPath(p, fname), FinalPath(p, fname))
                                 [] OTHER -> FsWrite(fsys, TmpPath(p, fname), DocOf(d)[k - 2])

\* The files after the first n steps of _write_json(p, fname, d); n = WriteSteps is
\* the call returning, a smaller n the call raising OSError at step n + 1.
RECURSIVE WriteJsonRun(_, _, _, _, _)
WriteJsonRun(fsys, p, fname, d, n) == IF n = 0 THEN fsys
                                      ELSE WriteStep(WriteJsonRun(fsys, p, fname, d, n - 1), p, fname, d, n)

\* Where a call of _write_json made by a job ends: it returns, or it raises
\* with the temporary file one chunk short.
WriteEnds == {WriteSteps - 2, WriteSteps}

\* ------------------------------------------------------------- the two jobs
MaxRuns == 1

MaxFaults == 1

VARIABLES dbReady,   \* get_db() is not None
          history,   \* the documents in db.wait_times
          live,      \* the run of fetch_all_live in progress
          cal,       \* the run of fetch_all_calendars in progress
          runs,      \* per job: runs started
          runlog,    \* per job and source: how the source's step of the current run ended
          snapIns,   \* per source: state of the history insert when live.json was last replaced
          faults     \* failures injected so far

tickVars == <<dbReady, history, live, cal, runs, runlog, snapIns, faults>>

NoLog == [outcome |-> "none", ins |-> "none", wrote |-> FALSE, wfail |-> FALSE, reqs |-> 0,
          now |-> NoTime, origin |-> <<>>]

LiveIdle == [pc |-> "idle", idx |-> 0, now |-> 0, cat |-> 0, got |-> <<>>, ins |-> "none",
             docs |-> {}, reqs |-> 0, stored |-> {}, reported |-> None, origin |-> <<>>]

CalIdle == [pc |-> "idle", idx |-> 0, calendar |-> NoDoc]

InitTick == /\ dbReady \in BOOLEAN
            /\ history = {}
            /\ live = LiveIdle
            /\ cal = CalIdle
            /\ runs = [j \in Jobs |-> 0]
            /\ runlog = [j \in Jobs |-> [p \in ParkIds |-> NoLog]]
            /\ snapIns = [p \in ParkIds |-> "none"]
            /\ faults = 0

IsEfteling(p) == p = "efteling"

\* The event loop runs one coroutine at a time and changes coroutine only at an
\* await that suspends: the upstream requests and the insert.
LiveSuspended == \/ live.pc \in {"idle", "done", "insert_wait"}
                 \/ live.pc = "wis" /\ f[0].pc = "await"

CalSuspended == cal.pc \in {"idle", "done", "months"}

\* the scheduler fires fetch_all_live
LiveStart == /\ CalSuspended
             /\ live.pc \in {"idle", "done"}
             /\ runs["live"] < MaxRuns
             /\ runs' = [runs EXCEPT !["live"] = @ + 1]
             /\ live' = [LiveIdle EXCEPT !.pc = "source", !.idx = 1]
             /\ runlog' = [runlog EXCEPT !["live"] = [p \in ParkIds |-> NoLog]]
             /\ UNCHANGED <<dbReady, history, cal, snapIns, faults, cacheVars, fsVars>>

\* A loop without the try/except: the first exception ends the run.
AfterSourceNoCatch(job, raised) == IF raised \/ job.idx = Len(PARKS) THEN [job EXCEPT !.pc = "done"]
                                   ELSE [job EXCEPT !.pc = "source", !.idx = @ + 1]

\* for park_id, connector in PARKS.items(): try: ... except Exception: log
AfterSource(job, raised) == IF job.idx = Len(PARKS) THEN [job EXCEPT !.pc = "done"]
                            ELSE [job EXCEPT !.pc = "source", !.idx = @ + 1]

\* _fetch_park_live: now = datetime.now(timezone.utc); db = get_db()
SourceBegin(job) == [job EXCEPT !.pc = "fetch", !.now = clock, !.cat = 1, !.got = <<>>,
                                !.ins = "none", !.docs = {}, !.reqs = 0,
                                !.stored = {}, !.reported = None, !.origin = <<>>]

LiveSourceBegin == /\ CalSuspended
                   /\ live.pc = "source"
                   /\ IsEfteling(PARKS[live.idx])
                   /\ live' = SourceBegin(live)
                   /\ UNCHANGED <<dbReady, history, cal, runs, runlog, snapIns, faults, cacheVars, fsVars>>

\* A stub connector whose fetch_wait_times returns one closed entry.
PlaceholderFetchedOneEntry(job) ==
    [job EXCEPT !.pc = "insert",
                !.got = <<<<[id |-> "stub", status |-> "closed", wait_time |-> None]>>, <<>>, <<>>, <<>>>>]

\* a placeholder connector: the four operations return [] without suspending
PlaceholderFetched(job) == [job EXCEPT !.pc = "insert", !.got = <<<<>>, <<>>, <<>>, <<>>>>]

\* Efteling: the operation calls self._fetch_wis()
LiveFetchCall == /\ CalSuspended
                 /\ live.pc = "fetch"
                 /\ IsEfteling(PARKS[live.idx])
                 /\ FetchWisCheck(0)
                 /\ live' = [live EXCEPT !.pc = "wis", !.reqs = IF CacheFresh(clock) THEN @ ELSE @ + 1]
                 /\ UNCHANGED <<dbReady, history, cal, runs, runlog, snapIns, faults, fsVars>>

\* the upstream response of the live job's request
LiveWisOk(data) == /\ CalSuspended
                   /\ FetchWisOk(0, data)
                   /\ faults' = IF \E c \in 1..4 : CategoryRaises(c, data) THEN faults + 1 ELSE faults
                   /\ faults' <= MaxFaults
                   /\ UNCHANGED <<dbReady, history, live, cal, runs, runlog, snapIns, fsVars>>

LiveWisFail == /\ CalSuspended
               /\ FetchWisFail(0)
               /\ faults < MaxFaults
               /\ faults' = faults + 1
               /\ UNCHANGED <<dbReady, history, live, cal, runs, runlog, snapIns, fsVars>>

\* The step's record in the log of the run.
LogOf(job, outcome, wrote, wfail) == [outcome |-> outcome, ins |-> job.ins, wrote |-> wrote,
                                      wfail |-> wfail, reqs |-> job.reqs, now |-> job.now,
                                      origin |-> job.origin]

\* _fetch_wis has returned or raised into the operation that awaits it
LiveFetchResultReady == CalSuspended /\ live.pc = "wis" /\ f[0].pc = "done"

\* try: data = await self._fetch_wis() except Exception: return []
\* then the category is built from data; an exception there leaves _fetch_park_live.
\* origin notes, per operation, what _fetch_wis gave it: an exception, or the
\* document of the response stored at the time `at` (the cached one, or the one of
\* the request this call sent).
LiveFetchResult == /\ LiveFetchResultReady
                   /\ LET res == f[0].result
                          raises == res.kind = "payload" /\ CategoryRaises(live.cat, res.data)
                          items == IF res.kind = "payload" THEN CategoryOf(live.cat, res.data, clock) ELSE <<>>
                      IN  IF raises
                          THEN /\ live' = AfterSource(live, TRUE)
                               /\ runlog' = [runlog EXCEPT !["live"][PARKS[live.idx]] =
                                                LogOf(live, "raised", FALSE, FALSE)]
                          ELSE /\ live' = [live EXCEPT !.got = Append(@, items),
                                                       !.origin = Append(@,
                                                           [kind |-> res.kind,
                                                            at |-> IF res.kind # "payload" THEN NoTime
                                                                   ELSE IF f[0].requested THEN f[0].now
                                                                   ELSE f[0].seenTime]),
                                                       !.cat = @ + 1,
                                                       !.pc = IF live.cat = Len(Categories)
                                                              THEN "insert" ELSE "fetch"]
                               /\ UNCHANGED runlog
                   /\ f' = [f EXCEPT ![0] = FIdle]
                   /\ UNCHANGED <<dbReady, history, cal, runs, snapIns, faults, fsVars,
                                  clock, cache, cacheTime, lastFetch>>

\* A document builder that stamps each record with the time it is built.
HistoryStampAtBuild(job) == clock

\* "timestamp": now
HistoryStamp(job) == job.now

\* A builder that makes a record of every show as well.
HistoryDocsWithShows(job, p) ==
    {[park_id |-> p, ride_id |-> job.got[1][i].id, status |-> job.got[1][i].status,
      wait_time |-> job.got[1][i].wait_time, timestamp |-> HistoryStamp(job)] : i \in 1..Len(job.got[1])}
    \cup {[park_id |-> p, ride_id |-> job.got[2][i].id, status |-> job.got[2][i].status,
           wait_time |-> JNull, timestamp |-> HistoryStamp(job)] : i \in 1..Len(job.got[2])}

\* docs: one per attraction
HistoryDocs(job, p) == {[park_id |-> p, ride_id |-> job.got[1][i].id, status |-> job.got[1][i].status,
                         wait_time |-> job.got[1][i].wait_time, timestamp |-> HistoryStamp(job)]
                           : i \in 1..Len(job.got[1])}

\* A step that starts the insert and goes on without waiting for it.
AfterInsertStartDetached == "write"

\* await db.wait_times.insert_many(docs, ordered=False)
AfterInsertStart == "insert_wait"

\* if attractions and db is not None: build docs, start the insert
InsertDecision(job) == IF Len(job.got[1]) = 0 THEN [job EXCEPT !.pc = "write", !.ins = "empty"]
                       ELSE IF ~dbReady THEN [job EXCEPT !.pc = "write", !.ins = "nodb"]
                       ELSE [job EXCEPT !.pc = AfterInsertStart, !.ins = "inflight",
                                        !.docs = HistoryDocs(job, PARKS[job.idx])]

LiveInsertBegin == /\ CalSuspended
                   /\ live.pc = "insert"
                   /\ live' = InsertDecision(live)
                   /\ UNCHANGED <<dbReady, history, cal, runs, runlog, snapIns, faults, cacheVars, fsVars>>

\* the insert returns: logger.info(... Inserted {len(docs)} wait time records.)
LiveInsertOk == /\ CalSuspended
                /\ live.ins = "inflight"
                /\ history' = history \cup live.docs
                /\ live' = [live EXCEPT !.ins = "ok", !.docs = {},
                                        !.stored = live.docs,
                                        !.reported = [kind |-> "count", n |-> Cardinality(live.docs)],
                                        !.pc = IF @ = "insert_wait" THEN "write" ELSE @]
                /\ UNCHANGED <<dbReady, cal, runs, runlog, snapIns, faults, cacheVars, fsVars>>

\* A step that lets the insert's exception leave _fetch_park_live.
AfterInsertFailureRaise(job) == AfterSource([job EXCEPT !.ins = "failed", !.docs = {}], TRUE)

\* except Exception as e: logger.error(...MongoDB insert failed...)
AfterInsertFailure(job) == [job EXCEPT !.ins = "failed", !.docs = {},
                                       !.pc = IF @ = "insert_wait" THEN "write" ELSE @]

\* the insert raises; with ordered=False the documents in `stored` went in.
\* The pipeline logs the text of the exception as it is: a count is in the log
\* only when the driver put one in that text (counted).
LiveInsertFail(stored, counted) ==
                          /\ CalSuspended
                          /\ live.ins = "inflight"
                          /\ stored # live.docs
                          /\ faults < MaxFaults
                          /\ faults' = faults + 1
                          /\ history' = history \cup stored
                          /\ live' = [AfterInsertFailure(live) EXCEPT
                                          !.stored = stored,
                                          !.reported = IF counted
                                                       THEN [kind |-> "count", n |-> Cardinality(stored)]
                                                       ELSE None]
                          /\ runlog' = IF live.pc = "insert_wait" /\ live'.pc # "write"
                                       THEN [runlog EXCEPT !["live"][PARKS[live.idx]] =
                                               LogOf(live', "raised", FALSE, FALSE)]
                                       ELSE runlog
                          /\ UNCHANGED <<dbReady, cal, runs, snapIns, cacheVars, fsVars>>

\* live_data
LiveData(job, p) == [park_id |-> p, last_updated |-> job.now,
                     park_status |-> DeriveParkStatus(job.got[1]),
                     attractions |-> job.got[1], shows |-> job.got[2],
                     restaurants |-> job.got[3], shops |-> job.got[4]]

\* _write_json(park_id, "live.json", live_data) ends after n of its steps:
\* it returns (n = WriteSteps) or raises OSError, which leaves _fetch_park_live
LiveWrite(job, n) == LET p == PARKS[job.idx]
                         blocked == FsMkdirRaises(fs, p)
                         ok == n = WriteSteps /\ ~blocked
                     IN  /\ fs' = IF blocked THEN fs
                                  ELSE WriteJsonRun(fs, p, "live.json", LiveData(job, p), n)
                         /\ committed' = IF ok THEN [committed EXCEPT ![FinalPath(p, "live.json")] =
                                                        LiveData(job, p)]
                                         ELSE committed
                         /\ snapIns' = IF ok THEN [snapIns EXCEPT ![p] = job.ins] ELSE snapIns
                         /\ runlog' = [runlog EXCEPT !["live"][p] =
                                          LogOf(job, IF ok THEN "ok" ELSE "raised", ok, ~ok)]
                         /\ live' = AfterSource(job, ~ok)
                         /\ faults' = IF ok \/ blocked THEN faults ELSE faults + 1
                         /\ faults' <= MaxFaults

LiveWriteEnd(n) == /\ CalSuspended
                   /\ live.pc = "write"
                   /\ LiveWrite(live, n)
                   /\ UNCHANGED <<dbReady, history, cal, runs, cacheVars, w, wlog, r, target>>

\* a placeholder source: _fetch_park_live runs to its end without suspending
LivePlaceholder(n) == /\ CalSuspended
                      /\ live.pc = "source"
                      /\ ~IsEfteling(PARKS[live.idx])
                      /\ LiveWrite(InsertDecision(PlaceholderFetched(SourceBegin(live))), n)
                      /\ UNCHANGED <<dbReady, history, cal, runs, cacheVars, w, wlog, r, target>>

\* the scheduler fires fetch_all_calendars
CalStart == /\ LiveSuspended
            /\ cal.pc \in {"idle", "done"}
            /\ runs["calendar"] < MaxRuns
            /\ runs' = [runs EXCEPT !["calendar"] = @ + 1]
            /\ cal' = [CalIdle EXCEPT !.pc = "source", !.idx = 1]
            /\ runlog' = [runlog EXCEPT !["calendar"] = [p \in ParkIds |-> NoLog]]
            /\ UNCHANGED <<dbReady, history, live, snapIns, faults, cacheVars, fsVars>>

\* ParkCalendar(park_id, park_name, last_updated=datetime.now(timezone.utc), days)
Calendar(p, days) == [park_id |-> p, last_updated |-> clock, days |-> days]

\* _write_json(park_id, "calendar.json", calendar) ends after n of its steps
CalWrite(job, n) == LET p == PARKS[job.idx]
                        blocked == FsMkdirRaises(fs, p)
                        ok == n = WriteSteps /\ ~blocked
                    IN  /\ fs' = IF blocked THEN fs
                                 ELSE WriteJsonRun(fs, p, "calendar.json", job.calendar, n)
                        /\ committed' = IF ok THEN [committed EXCEPT ![FinalPath(p, "calendar.json")] =
                                                       job.calendar]
                                        ELSE committed
                        /\ runlog' = [runlog EXCEPT !["calendar"][p] =
                                         [NoLog EXCEPT !.outcome = IF ok THEN "ok" ELSE "raised",
                                                       !.wrote = ok, !.wfail = ~ok,
                                                       !.now = job.calendar.last_updated]]
                        /\ cal' = AfterSource([job EXCEPT !.calendar = NoDoc], ~ok)
                        /\ faults' = IF ok \/ blocked THEN faults ELSE faults + 1
                        /\ faults' <= MaxFaults

\* Efteling: fetch_calendar awaits its month requests
CalFetchBegin == /\ LiveSuspended
                 /\ cal.pc = "source"
                 /\ IsEfteling(PARKS[cal.idx])
                 /\ cal' = [cal EXCEPT !.pc = "months"]
                 /\ UNCHANGED <<dbReady, history, live, runs, runlog, snapIns, faults, cacheVars, fsVars>>

\* calendar = await connector.fetch_calendar() returns
CalFetchOk(days) == /\ LiveSuspended
                    /\ cal.pc = "months"
                    /\ cal' = [cal EXCEPT !.pc = "write", !.calendar = Calendar(PARKS[cal.idx], days)]
                    /\ UNCHANGED <<dbReady, history, live, runs, runlog, snapIns, faults, cacheVars, fsVars>>

\* fetch_calendar raises (a response body that is not the expected object)
CalFetchRaise == /\ LiveSuspended
                 /\ cal.pc = "months"
                 /\ faults < MaxFaults
                 /\ faults' = faults + 1
                 /\ runlog' = [runlog EXCEPT !["calendar"][PARKS[cal.idx]] =
                                  [NoLog EXCEPT !.outcome = "raised"]]
                 /\ cal' = AfterSource(cal, TRUE)
                 /\ UNCHANGED <<dbReady, history, live, runs, snapIns, cacheVars, fsVars>>

CalWriteEnd(n) == /\ LiveSuspended
                  /\ cal.pc = "write"
                  /\ CalWrite(cal, n)
                  /\ UNCHANGED <<dbReady, history, live, runs, snapIns, cacheVars, w, wlog, r, target>>

\* a placeholder source: an empty calendar, written without suspending
CalPlaceholder(n) == /\ LiveSuspended
                     /\ cal.pc = "source"
                     /\ ~IsEfteling(PARKS[cal.idx])
                     /\ CalWrite([cal EXCEPT !.calendar = Calendar(PARKS[cal.idx], <<>>)], n)
                     /\ UNCHANGED <<dbReady, history, live, runs, snapIns, cacheVars, w, wlog, r, target>>

\* ------------------------------------------- the four operations on one document
\* What a fetch operation gives its caller for an upstream outcome: the list it
\* returns, or the exception that leaves it.
\* try: data = await self._fetch_wis() except Exception: return []
FetchResult(cat, res, now) ==
    IF res.kind # "payload" THEN [kind |-> "list", items |-> <<>>]
    ELSE IF CategoryRaises(cat, res.data) THEN [kind |-> "raised", items |-> <<>>]
    ELSE [kind |-> "list", items |-> CategoryOf(cat, res.data, now)]

\* The same string in capitals.
Upper(cs) == LET upper == <<"A", "B", "C", "D", "E", "F", "G", "H", "I", "J", "K", "L", "M", "N", "O", "P", "Q", "R", "S", "T", "U", "V", "W", "X", "Y", "Z">>
                 lower == <<"a", "b", "c", "d", "e", "f", "g", "h", "i", "j", "k", "l", "m", "n", "o", "p", "q", "r", "s", "t", "u", "v", "w", "x", "y", "z">>
             IN  [i \in 1..Len(cs) |-> IF \E k \in 1..26 : lower[k] = cs[i]
                                       THEN upper[CHOOSE k \in 1..26 : lower[k] = cs[i]]
                                       ELSE cs[i]]

\* The same string between blanks.
Padded(cs) == <<" ">> \o cs \o <<" ", "\n">>

KnownStates == {Word.open, Word.nognietopen, Word.storing, Word.tijdelijkbuitenbedrijf, Word.inonderhoud,
                Word.buitenbedrijf, Word.gesloten, Word.wachtrijgesloten}

\* Attraction entries: every combination of the fields above, each field also absent.
RawAttractions ==
  LET \* The State field as the vendor may send it: the known strings in any case and
      \* with surrounding blanks, the empty string, blanks, words the connector does
      \* not know, null, or a number by mistake.
      RawStates ==
          LET strings == KnownStates \cup {Upper(cs) : cs \in KnownStates}
                                     \cup {Padded(cs) : cs \in KnownStates}
                                     \cup {<<>>, <<" ">>, <<"d", "i", "c", "h", "t">>, <<"o", "p", "e", "n", "s">>}
          IN  {JStr(cs) : cs \in strings} \cup {JNull, JInt(5)}
      \* The WaitingTime field.
      RawWaits == {JInt(10), JInt(0), JInt(-5), JStr(<<"1", "2">>), JStr(<<"a", "b", "c">>), JNull,
                   JList(<<JInt(3)>>)}
      \* The VirtualQueue field.
      RawQueues ==
        LET Queue(state, wait) == JObj([State |-> state, WaitingTime |-> wait])
        IN         {Queue(JStr(Word.enabled), JInt(20)), Queue(JStr(Word.enabled), JInt(0)),
                    Queue(JStr(Word.enabled), JInt(-5)), Queue(JStr(Word.enabled), JStr(<<"a", "b", "c">>)),
                    Queue(JStr(Word.enabled), JNull), JObj([State |-> JStr(Upper(Word.enabled))]),
                    Queue(JStr(Padded(Word.enabled)), JInt(20)),
                    Queue(JStr(Word.walkin), JInt(5)), Queue(JStr(Upper(Word.walkin)), JInt(5)),
                    Queue(JStr(Word.full), JInt(30)), JObj(<<>>),
                    Queue(JStr(<<"p", "a", "u", "s", "e", "d">>), JInt(5)), Queue(JStr(<<>>), JInt(5)),
                    Queue(JNull, JInt(5)), Queue(JInt(3), JInt(5)),
                    JObj([WaitingTime |-> JInt(5)]), JStr(<<"y", "e", "s">>), JNull}
      Fields(e, names) == [n \in names |-> e[n]]
  IN
    {Fields([Id |-> Word.python, Type |-> "Attraction", State |-> st, WaitingTime |-> wt, VirtualQueue |-> vq],
            {"Type"} \cup opt) :
        st \in RawStates, wt \in RawWaits, vq \in RawQueues,
        opt \in {{"Id", "State", "WaitingTime", "VirtualQueue"}, {"Id", "State", "WaitingTime"},
                 {"Id", "State", "VirtualQueue"}, {"Id", "WaitingTime", "VirtualQueue"},
                 {"State", "WaitingTime", "VirtualQueue"}}}

\* The well-formed entries that come with it in the same document.
Siblings == <<Entry(Word.droomvluchtstandby, "Attracties", Word.open, 15),
              Entry(Word.raveleijn, "Shows en Entertainment", <<>>, 0),
              Entry(Word.polles, "Horeca", <<>>, 0),
              Entry(Word.efteldingen, "Souvenirwinkel", <<>>, 0)>>

\* The outcomes of _fetch_wis: a document, or an exception (transport error,
\* timeout, non-2xx status).
UpstreamOutcomes ==
    LET \* Documents with single-rider entries: an attraction and its entry with the
        \* suffix sr; the same in capitals with the marker singlerider and the
        \* single-rider queue in breakdown; a single-rider entry whose attraction is
        \* not in the document; droomvluchtstandby with the single-rider entry of
        \* droomvlucht; droomvluchtstandby with its own single-rider entry; an
        \* attraction whose own Id contains the letters sr; droomvlucht and
        \* droomvluchtstandby as two attractions of one document.
        SingleRiderPayloads ==
            {[AttractionInfo |-> doc] : doc \in {
                <<Entry(Word.python, "Attraction", Word.open, 12),
                  Entry(Word.python \o Word.sr, "Attraction", Word.open, 3)>>,
                <<Entry(Upper(Word.python), "Attracties", Word.open, 12),
                  Entry(Upper(Word.python) \o Word.singlerider, "Attracties", Word.storing, 7)>>,
                <<Entry(Word.baron1898 \o Word.sr, "Attraction", Word.open, 3),
                  Entry(Word.python, "Attraction", Word.open, 12)>>,
                <<Entry(Word.droomvluchtstandby, "Attracties", Word.open, 15),
                  Entry(Word.droomvlucht \o Word.sr, "Attracties", Word.open, 3)>>,
                <<Entry(Word.droomvluchtstandby, "Attracties", Word.open, 15),
                  Entry(Word.droomvluchtstandby \o Word.sr, "Attracties", Word.open, 3)>>,
                <<Entry(Word.sr \o Word.python, "Attraction", Word.open, 12),
                  Entry(Word.sr \o Word.python \o Word.sr, "Attraction", Word.open, 3)>>,
                <<Entry(Word.droomvlucht, "Attraction", Word.open, 20),
                  Entry(Word.droomvluchtstandby, "Attraction", Word.open, 15)>>}}
        \* Documents with one show after an attraction: the show's intervals are taken
        \* from a morning one, one that starts at 14:00, one that is going on at 14:00,
        \* a later one and one whose end cannot be read.
        ShowPayloads ==
            LET Time(start, end) == JObj([StartDateTime |-> JStr(start), EndDateTime |-> JStr(end)])
                times == {Time(<<"1", "0", ":", "0", "0">>, <<"1", "0", ":", "3", "0">>), Time(<<"1", "4", ":", "0", "0">>, <<"1", "4", ":", "3", "0">>), Time(<<"1", "3", ":", "3", "0">>, <<"1", "4", ":", "3", "0">>),
                          Time(<<"1", "5", ":", "0", "0">>, <<"1", "5", ":", "3", "0">>), Time(<<"1", "6", ":", "0", "0">>, <<"s", "o", "o", "n">>)}
                lists == {<<>>} \cup {<<t>> : t \in times} \cup {<<t, u>> : t \in times, u \in times}
            IN  {[AttractionInfo |->
                    <<Entry(Word.python, "Attraction", Word.open, 10),
                      [Id |-> Upper(Word.raveleijn), Type |-> "Shows en Entertainment",
                       ShowTimes |-> JList(up), PastShowTimes |-> JList(past)]>>] :
                    up \in lists, past \in {<<>>, <<Time(<<"1", "0", ":", "0", "0">>, <<"1", "0", ":", "3", "0">>)>>}}
    IN  {[kind |-> "raised"]}
           \cup {[kind |-> "payload", data |-> [AttractionInfo |-> <<e>> \o Siblings]] :
                    e \in RawAttractions}
           \cup {[kind |-> "payload", data |-> d] : d \in SingleRiderPayloads \cup ShowPayloads}

VARIABLES pin,   \* the outcome of _fetch_wis the operations work on
          pnow,  \* datetime.now(PARK_TIMEZONE) when they run
          pout,  \* per category: what the operation gave its caller
          cin,   \* the responses of the calendar endpoint, one per requested month
          cout,  \* fetch_calendar: the months done and the days collected
          hin,   \* the documents of db.wait_times, in the order the store keeps them
          hout,  \* the history request served and its response
          hkept  \* the documents that were stored, and whether the TTL monitor has run since

parseVars == <<pin, pnow, pout, cin, cout, hin, hout, hkept>>

NoResult == [kind |-> "none", items |-> <<>>]

\* ---------------------------------------------------------- fetch_calendar
\* for offset in range(3)
MonthCount == 3

\* The outcomes of the request for month k: status 400, any other failure
\* inside the try (transport error, other status, a body that is not JSON),
\* a body that is JSON but no object (null), or a document with the days of
\* that month. A day has no, one or two
\* intervals in either order; an interval may lack Open; a day may lack
\* OpeningHours. The first month carries the variety of days.
MonthOutcomes(k) ==
    LET intervals == {[Open |-> <<"1", "0", ":", "0", "0">>, Close |-> <<"1", "8", ":", "0", "0">>], [Open |-> <<"1", "8", ":", "3", "0">>, Close |-> <<"2", "3", ":", "0", "0">>],
                      [Open |-> <<"0", "9", ":", "0", "0">>, Close |-> <<"0", "9", ":", "3", "0">>], [Close |-> <<"1", "7", ":", "0", "0">>]}
        lists == {<<>>} \cup {<<h>> : h \in intervals}
                        \cup {<<h, g>> : h \in intervals, g \in intervals}
        days == IF k = 1
                THEN {[Date |-> <<2026, k, 1>>]}
                        \cup {[Date |-> <<2026, k, 1>>, OpeningHours |-> l] : l \in lists}
                ELSE {[Date |-> <<2026, k, 1>>, OpeningHours |-> <<h>>] : h \in intervals}
    IN  {[kind |-> "400"], [kind |-> "error"], [kind |-> "payload", data |-> JNull],
         [kind |-> "payload", data |-> [OpeningHours |-> <<>>]]}
           \cup {[kind |-> "payload", data |-> [OpeningHours |-> <<d>>]] : d \in days}

\* The place of a string of digits, colons and small letters in the order of
\* strings (character by character, a prefix first), as a number; it tells
\* apart strings that differ in their first five characters.
LexKey(cs) ==
    LET code == <<"0", "1", "2", "3", "4", "5", "6", "7", "8", "9", ":",
                  "a", "b", "c", "d", "e", "f", "g", "h", "i", "j", "k", "l", "m",
                  "n", "o", "p", "q", "r", "s", "t", "u", "v", "w", "x", "y", "z">>
        d(i) == IF i <= Len(cs) THEN CHOOSE k \in 1..Len(code) : code[k] = cs[i] ELSE 0
    IN  (((d(1) * 38 + d(2)) * 38 + d(3)) * 38 + d(4)) * 38 + d(5)

\* A day whose intervals are tagged in the order they come.
ParkDayUnsorted(day_entry) ==
    LET raw_hours == GetOr(day_entry, "OpeningHours", <<>>)
    IN  [date |-> GetOr(day_entry, "Date", <<>>),
         is_open |-> Len(raw_hours) > 0,
         hours |-> [idx \in 1..Len(raw_hours) |->
                       [opening_time |-> GetOr(raw_hours[idx], "Open", <<>>),
                        closing_time |-> GetOr(raw_hours[idx], "Close", <<>>),
                        type |-> IF idx = 1 THEN "operating" ELSE "informational"]]]

\* raw_hours = sorted(day_entry.get("OpeningHours", []), key=lambda h: h.get("Open", "00:00"));
\* ParkDay(date, is_open=len(park_hours) > 0, hours=park_hours)
ParkDay(day_entry) ==
    LET sent == GetOr(day_entry, "OpeningHours", <<>>)
        raw_hours == SortBy(sent, [i \in 1..Len(sent) |->
                                     LexKey(GetOr(sent[i], "Open", <<"0", "0", ":", "0", "0">>))])
    IN  [date |-> GetOr(day_entry, "Date", <<>>),
         is_open |-> Len(raw_hours) > 0,
         hours |-> [idx \in 1..Len(raw_hours) |->
                       [opening_time |-> GetOr(raw_hours[idx], "Open", <<>>),
                        closing_time |-> GetOr(raw_hours[idx], "Close", <<>>),
                        type |-> IF idx = 1 THEN "operating" ELSE "informational"]]]

\* one round of the loop over the months: `continue` on status 400 and on an
\* exception inside the try; cal.get outside the try raises on a body that is
\* no object, and the exception leaves fetch_calendar; otherwise the days of
\* the month are appended. After the last month fetch_calendar returns
\* ParkCalendar(days=days).
FetchCalendarMonth ==
    /\ cout.offset < Len(cin)
    /\ ~cout.raised
    /\ LET outcome == cin[cout.offset + 1]
       IN  cout' = IF outcome.kind # "payload"
                   THEN [cout EXCEPT !.offset = @ + 1]
                   ELSE IF outcome.data = JNull
                   THEN [offset |-> cout.offset + 1, days |-> <<>>, raised |-> TRUE]
                   ELSE [cout EXCEPT !.offset = @ + 1,
                                     !.days = @ \o [i \in 1..Len(outcome.data.OpeningHours) |->
                                                       ParkDay(outcome.data.OpeningHours[i])]]
    /\ UNCHANGED <<pin, pnow, pout, cin, hin, hout, hkept>>

\* ------------------------------------------------------- routers/history.py
\* Times are in hours since the epoch; a day is given by its number.
HistoryNow == 2400

\* create_index([("timestamp", ASCENDING)], expireAfterSeconds=60 * 60 * 24 * 90, name="ttl_90days")
expireAfterSeconds == 60 * 60 * 24 * 90

\* An index made with expireAfterSeconds=90.
ExpiredAfterNinetySeconds(timestamp) == timestamp * 3600 < HistoryNow * 3600 - 90

\* The documents the TTL monitor of the store deletes: those whose timestamp
\* is more than expireAfterSeconds in the past.
Expired(timestamp) == timestamp * 3600 < HistoryNow * 3600 - expireAfterSeconds

\* a pass of the TTL monitor over db.wait_times
TtlSweep == /\ hin # <<>>
            /\ hout = NoResult
            /\ ~hkept.swept
            /\ LET Kept(doc) == ~Expired(doc.timestamp)
               IN  hin' = SelectSeq(hin, Kept)
            /\ hkept' = [hkept EXCEPT !.swept = TRUE]
            /\ UNCHANGED <<pin, pnow, pout, cin, cout, hout>>

\* time_filter: {"$gte": day_start, "$lt": day_start + 1 day} when a date is
\* given, else {"$gte": now - hours}
InTimeFilter(t, hours, date) == IF date # None THEN 24 * date.v <= t /\ t < 24 * date.v + 24
                                ELSE HistoryNow - hours <= t

\* A find that returns the matching documents in the order of the collection.
FindUnsorted(store, park_id, rides, hours, date) ==
    LET Match(doc) == /\ doc.park_id = park_id
                      /\ doc.ride_id \in rides
                      /\ InTimeFilter(doc.timestamp, hours, date)
    IN  SelectSeq(store, Match)

\* db.wait_times.find({park_id, ride_id, timestamp: time_filter}, sort=[("timestamp", 1)])
\* and {"$match": ...}, {"$sort": {"timestamp": 1}}: the documents of the
\* source, of the rides asked for and of the time range, by ascending time
Find(store, park_id, rides, hours, date) ==
    LET Match(doc) == /\ doc.park_id = park_id
                      /\ doc.ride_id \in rides
                      /\ InTimeFilter(doc.timestamp, hours, date)
        found == SelectSeq(store, Match)
    IN  SortBy(found, [i \in 1..Len(found) |-> found[i].timestamp])

\* get_ride_history
GetRideHistory(park_id, ride_id, hours, date) ==
    /\ hout = NoResult
    /\ hkept.stored # <<>>
    /\ LET records == Find(hin, park_id, {ride_id}, hours, date)
       IN  hout' = [kind |-> "ride", park_id |-> park_id, ride_id |-> ride_id, hours |-> hours,
                    date |-> date,
                    data_points |-> Len(records),
                    history |-> [i \in 1..Len(records) |-> [timestamp |-> records[i].timestamp]]]
    /\ UNCHANGED <<pin, pnow, pout, cin, cout, hin, hkept>>

\* get_all_rides_history: $match, $sort by timestamp, $group by ride_id with
\* $push (the documents of a group in the order they come in), $project,
\* $sort by ride_id
GetAllRidesHistory(park_id, hours) ==
    /\ hout = NoResult
    /\ hkept.stored # <<>>
    /\ LET sorted == Find(hin, park_id, {hin[i].ride_id : i \in 1..Len(hin)}, hours, None)
           ids == {sorted[i].ride_id : i \in 1..Len(sorted)}
           Group(id) == LET Same(doc) == doc.ride_id = id
                            pushed == SelectSeq(sorted, Same)
                        IN  [ride_id |-> id,
                             history |-> [i \in 1..Len(pushed) |-> [timestamp |-> pushed[i].timestamp]]]
           Before(id) == {o \in ids : LexKey(o) < LexKey(id)}
       IN  hout' = [kind |-> "all", park_id |-> park_id, hours |-> hours,
                    rides |-> [k \in 1..Cardinality(ids) |->
                                 Group(CHOOSE id \in ids : Cardinality(Before(id)) = k - 1)]]
    /\ UNCHANGED <<pin, pnow, pout, cin, cout, hin, hkept>>

\* A behaviour starts from an upstream outcome and a park-local time, from the
\* responses of the calendar endpoint, or from a collection of up to three
\* history documents of two sources, two rides and three times (one of them
\* a hundred days old), in any order.
InitParse == /\ pout = [c \in 1..Len(Categories) |-> NoResult]
             /\ cout = [offset |-> 0, days |-> <<>>, raised |-> FALSE]
             /\ hout = NoResult
             /\ \/ /\ pin \in UpstreamOutcomes
                   /\ pnow \in {50400, 50437, 86399}  \* 14:00:00, 14:00:37, 23:59:59 park-local
                   /\ cin = <<>>
                   /\ hin = <<>>
                \/ /\ pin = [kind |-> "raised"]
                   /\ pnow = 0
                   /\ cin \in {<<a, b, c>> : a \in MonthOutcomes(1), b \in MonthOutcomes(2),
                                             c \in MonthOutcomes(MonthCount)}
                   /\ hin = <<>>
                \/ /\ pin = [kind |-> "raised"]
                   /\ pnow = 0
                   /\ cin = <<>>
                   /\ LET docs == {[park_id |-> p, ride_id |-> ride, timestamp |-> t] :
                                      p \in {"efteling", "europapark"},
                                      ride \in {Word.python, Word.baron1898}, t \in {200, 2399, 2400}}
                      IN  hin \in {<<a>> : a \in docs} \cup {<<a, b>> : a \in docs, b \in docs}
                                     \cup {<<a, b, c>> : a \in docs, b \in docs, c \in docs}
             /\ hkept = [stored |-> hin, swept |-> FALSE]

\* The fixed outcome the other specifications carry.
InitParseIdle == /\ pin = [kind |-> "raised"]
                 /\ pnow = 0
                 /\ pout = [c \in 1..Len(Categories) |-> NoResult]
                 /\ cin = <<>>
                 /\ cout = [offset |-> 0, days |-> <<>>, raised |-> FALSE]
                 /\ hin = <<>>
                 /\ hout = NoResult
                 /\ hkept = [stored |-> <<>>, swept |-> FALSE]

\* fetch_wait_times, fetch_shows, fetch_restaurants, fetch_shops, one after the
\* other, in the behaviours that start from an upstream outcome
FetchCategory(c) == /\ cin = <<>>
                    /\ hin = <<>>
                    /\ pout[c] = NoResult
                    /\ \A b \in 1..(c - 1) : pout[b] # NoResult
                    /\ pout' = [pout EXCEPT ![c] = FetchResult(c, pin, pnow)]
                    /\ UNCHANGED <<pin, pnow, cin, cout, hin, hout, hkept>>

\* ------------------------------------------------------------ the triggers
\* start_scheduler registers the two jobs; the scheduler fires each when its
\* next run time has come and then moves that time on by the job's interval.
MaxSchedTime == 1445

VARIABLES stime,      \* minutes since start_scheduler
          nextRun,    \* per job: when its trigger is next due
          fired,      \* per job: how many times its trigger has come due
          running,    \* per job: runs in progress
          firstStart, \* per job: when its first run started
          lastEnd,    \* per job: how its last run ended
          steps       \* the calls of _fetch_park_live under way: source and `now`

schedVars == <<stime, nextRun, fired, running, firstStart, lastEnd, steps>>

\* trigger=IntervalTrigger(minutes=5) / trigger=IntervalTrigger(hours=24)
IntervalMinutes == [j \in Jobs |-> IF j = "live" THEN 5 ELSE 24 * 60]

\* A job registered without next_run_time: first due one interval after the start.
FirstRunAfterInterval(j) == IntervalMinutes[j]

\* next_run_time=datetime.now(timezone.utc)
FirstRunTime(j) == 0

\* Two instances of a job allowed at a time.
MaxInstancesTwo == 1 + 1

\* add_job is called without max_instances: one instance of a job at a time
MaxInstances == 1

InitSched == /\ stime = 0
             /\ nextRun = [j \in Jobs |-> FirstRunTime(j)]
             /\ fired = [j \in Jobs |-> 0]
             /\ running = [j \in Jobs |-> 0]
             /\ firstStart = [j \in Jobs |-> NoTime]
             /\ lastEnd = [j \in Jobs |-> "none"]
             /\ steps = {}

\* The trigger of job j is due: a run starts unless the job has its maximum of
\* instances running, in which case this run is skipped.
SchedTrigger(j) == /\ nextRun[j] = stime
                   /\ nextRun' = [nextRun EXCEPT ![j] = @ + IntervalMinutes[j]]
                   /\ fired' = [fired EXCEPT ![j] = @ + 1]
                   /\ IF running[j] < MaxInstances
                      THEN /\ running' = [running EXCEPT ![j] = @ + 1]
                           /\ firstStart' = IF firstStart[j] = NoTime
                                            THEN [firstStart EXCEPT ![j] = stime] ELSE firstStart
                      ELSE UNCHANGED <<running, firstStart>>
                   /\ UNCHANGED <<stime, lastEnd, steps>>

\* A run of job j ends, having logged an error or not; however long it took.
SchedRunEnds(j, outcome) == /\ running[j] > 0
                            /\ running' = [running EXCEPT ![j] = @ - 1]
                            /\ lastEnd' = [lastEnd EXCEPT ![j] = outcome]
                            /\ UNCHANGED <<stime, nextRun, fired, firstStart, steps>>

\* Time goes by until the next trigger is due.
SchedAdvance == /\ \A j \in Jobs : nextRun[j] > stime
                /\ \E j \in Jobs : /\ \A k \in Jobs : nextRun[j] <= nextRun[k]
                                   /\ stime' = nextRun[j]
                /\ stime' <= MaxSchedTime
                /\ UNCHANGED <<nextRun, fired, running, firstStart, lastEnd, steps>>

\* A run of fetch_all_live that is between two sources calls _fetch_park_live
\* for source p, which takes now = datetime.now(timezone.utc) first. The runs
\* are not told apart: any run with no call under way may take any source.
SchedStepBegin(p) == /\ Cardinality(steps) < running["live"]
                     /\ steps' = steps \cup {[park_id |-> p, now |-> stime]}
                     /\ UNCHANGED <<stime, nextRun, fired, running, firstStart, lastEnd>>

\* The call ends: _write_json has replaced live.json by the aggregate with
\* last_updated = now, or an exception has left the call before that.
SchedStepEnd(s, wrote) == /\ s \in steps
                          /\ steps' = steps \ {s}
                          /\ committed' = IF wrote
                                          THEN [committed EXCEPT ![FinalPath(s.park_id, "live.json")] =
                                                   [park_id |-> s.park_id, last_updated |-> s.now]]
                                          ELSE committed
                          /\ UNCHANGED <<stime, nextRun, fired, running, firstStart, lastEnd>>

auxVars == <<schedVars, parseVars>>

\* Callers that call one after the other.
NextCacheSeq == \/ \E c \in Callers \ {0} : Alone(c) /\ FetchWisCheck(c) /\ UNCHANGED <<fsVars, tickVars, auxVars>>
                \/ \E c \in Callers \ {0}, data \in WisPayloads : FetchWisOk(c, data) /\ UNCHANGED <<fsVars, tickVars, auxVars>>
                \/ \E c \in Callers \ {0} : FetchWisFail(c) /\ UNCHANGED <<fsVars, tickVars, auxVars>>
                \/ \E c \in Callers \ {0} : FetchWisReturn(c) /\ UNCHANGED <<fsVars, tickVars, auxVars>>
                \/ \E d \in ClockSteps : Advance(d) /\ UNCHANGED <<fsVars, tickVars, auxVars>>

\* Callers that may overlap.
NextCache == \/ \E c \in Callers \ {0} : FetchWisCheck(c) /\ UNCHANGED <<fsVars, tickVars, auxVars>>
             \/ \E c \in Callers \ {0}, data \in WisPayloads : FetchWisOk(c, data) /\ UNCHANGED <<fsVars, tickVars, auxVars>>
             \/ \E c \in Callers \ {0} : FetchWisFail(c) /\ UNCHANGED <<fsVars, tickVars, auxVars>>
             \/ \E c \in Callers \ {0} : FetchWisReturn(c) /\ UNCHANGED <<fsVars, tickVars, auxVars>>
             \/ \E d \in ClockSteps : Advance(d) /\ UNCHANGED <<fsVars, tickVars, auxVars>>

\* Time is taken to pass while every coroutine is suspended or not running.
TimePasses == LiveSuspended /\ CalSuspended

TickAdvance(d) == /\ TimePasses
                  /\ Advance(d)
                  /\ UNCHANGED <<tickVars, fsVars>>

NextTick == \/ LiveStart /\ UNCHANGED auxVars
            \/ LiveSourceBegin /\ UNCHANGED auxVars
            \/ \E n \in WriteEnds : LivePlaceholder(n) /\ UNCHANGED auxVars
            \/ LiveFetchCall /\ UNCHANGED auxVars
            \/ \E data \in WisPayloads : LiveWisOk(data) /\ UNCHANGED auxVars
            \/ LiveWisFail /\ UNCHANGED auxVars
            \/ LiveFetchResult /\ UNCHANGED auxVars
            \/ LiveInsertBegin /\ UNCHANGED auxVars
            \/ LiveInsertOk /\ UNCHANGED auxVars
            \/ \E stored \in SUBSET live.docs, counted \in BOOLEAN :
                  LiveInsertFail(stored, counted) /\ UNCHANGED auxVars
            \/ \E n \in WriteEnds : LiveWriteEnd(n) /\ UNCHANGED auxVars
            \/ CalStart /\ UNCHANGED auxVars
            \/ CalFetchBegin /\ UNCHANGED auxVars
            \/ \E days \in {<<>>, <<[date |-> "2026-02-20", is_open |-> TRUE]>>} : CalFetchOk(days) /\ UNCHANGED auxVars
            \/ CalFetchRaise /\ UNCHANGED auxVars
            \/ \E n \in WriteEnds : CalWriteEnd(n) /\ UNCHANGED auxVars
            \/ \E n \in WriteEnds : CalPlaceholder(n) /\ UNCHANGED auxVars
            \/ TickAdvance(WIS_CACHE_SECONDS) /\ UNCHANGED auxVars

InitFSTarget == /\ fs = [dirs |-> {}, files |-> [q \in AllPaths |-> NoFile]]
                /\ w = WIdle
                /\ committed = [q \in FinalPaths |-> NoDoc]
                /\ wlog = WNone
                /\ r = RIdle
                /\ target \in {PARKS[1]} \X FinalNames

\* The documents written are told apart by last_updated; the first is the
\* aggregate of a tick that got nothing (empty lists).
NextFS == \/ \E d \in {[park_id |-> target[1], last_updated |-> t,
                         attractions |-> IF t = 1 THEN <<>> ELSE <<Word.python>>] : t \in 1..MaxDocs} :
                WriteJsonCall(target[1], target[2], d) /\ UNCHANGED <<cacheVars, tickVars, auxVars>>
          \/ WMkdir /\ UNCHANGED <<cacheVars, tickVars, auxVars>>
          \/ WOpen /\ UNCHANGED <<cacheVars, tickVars, auxVars>>
          \/ WDump /\ UNCHANGED <<cacheVars, tickVars, auxVars>>
          \/ WRename /\ UNCHANGED <<cacheVars, tickVars, auxVars>>
          \/ WAbort /\ UNCHANGED <<cacheVars, tickVars, auxVars>>
          \/ RExists(target[1], target[2]) /\ UNCHANGED <<cacheVars, tickVars, auxVars>>
          \/ ROpen /\ UNCHANGED <<cacheVars, tickVars, auxVars>>
          \/ RRead /\ UNCHANGED <<cacheVars, tickVars, auxVars>>
          \/ RReturn /\ UNCHANGED <<cacheVars, tickVars, auxVars>>

vars == <<fsVars, cacheVars, tickVars, schedVars, parseVars>>

NextSched == \/ \E j \in Jobs : SchedTrigger(j) /\ UNCHANGED <<fsVars, cacheVars, tickVars, parseVars>>
             \/ \E j \in Jobs, outcome \in {"ok", "error"} :
                   SchedRunEnds(j, outcome) /\ UNCHANGED <<fsVars, cacheVars, tickVars, parseVars>>
             \/ SchedAdvance /\ UNCHANGED <<fsVars, cacheVars, tickVars, parseVars>>

\* The first hours of the two jobs, with the calls of _fetch_park_live of the
\* live runs; a run of fetch_all_live ends when none of its calls is under way.
MaxOrderTime == 10

NextOrder == \/ \E j \in Jobs : SchedTrigger(j) /\ UNCHANGED <<fsVars, cacheVars, tickVars, parseVars>>
             \/ \E outcome \in {"ok", "error"} :
                   SchedRunEnds("calendar", outcome) /\ UNCHANGED <<fsVars, cacheVars, tickVars, parseVars>>
             \/ /\ Cardinality(steps) < running["live"]
                /\ SchedRunEnds("live", "ok")
                /\ UNCHANGED <<fsVars, cacheVars, tickVars, parseVars>>
             \/ \E p \in ParkIds : SchedStepBegin(p) /\ UNCHANGED <<fsVars, cacheVars, tickVars, parseVars>>
             \/ \E s \in steps, wrote \in BOOLEAN :
                   SchedStepEnd(s, wrote) /\ UNCHANGED <<fs, w, wlog, r, target, cacheVars, tickVars, parseVars>>
             \/ SchedAdvance /\ stime' <= MaxOrderTime /\ UNCHANGED <<fsVars, cacheVars, tickVars, parseVars>>

NextParse == \/ \E c \in 1..Len(Categories) :
                   FetchCategory(c) /\ UNCHANGED <<fsVars, cacheVars, tickVars, schedVars>>
             \/ FetchCalendarMonth /\ UNCHANGED <<fsVars, cacheVars, tickVars, schedVars>>
             \/ \E p \in {"efteling", "europapark"}, ride \in {Word.python, Word.baron1898},
                   hours \in {1, 24}, date \in {None, [v |-> 8], [v |-> 99]} :
                   GetRideHistory(p, ride, hours, date)
                      /\ UNCHANGED <<fsVars, cacheVars, tickVars, schedVars>>
             \/ \E p \in {"efteling", "europapark"}, hours \in {1, 24} :
                   GetAllRidesHistory(p, hours) /\ UNCHANGED <<fsVars, cacheVars, tickVars, schedVars>>
             \/ TtlSweep /\ UNCHANGED <<fsVars, cacheVars, tickVars, schedVars>>

\* Nothing on disk, nothing cached, nothing in progress.
Init == InitFS /\ InitCache /\ InitTick /\ InitSched /\ InitParseIdle

\* The same, with the final path under observation chosen.
InitTarget == InitFSTarget /\ InitCache /\ InitTick /\ InitSched /\ InitParseIdle

\* The same, with the upstream outcome the operations work on chosen.
InitOutcome == InitFS /\ InitCache /\ InitTick /\ InitSched /\ InitParse

\* The scheduler's two jobs over the registry.
Spec == Init /\ [][NextTick]_vars

SpecFS == InitTarget /\ [][NextFS]_vars

SpecCacheSeq == Init /\ [][NextCacheSeq]_vars

SpecCache == Init /\ [][NextCache]_vars

\* The triggers of the two jobs.
SpecSched == Init /\ [][NextSched]_vars

\* The end of a live step for every list of attractions fetch_wait_times can
\* have returned, by their statuses: the step of the first source stands before
\* its write, the store not being connected.
MaxParkLen == 3

InitStatus == /\ InitFS /\ InitCache /\ InitSched /\ InitParseIdle
              /\ dbReady = FALSE
              /\ history = {}
              /\ cal = CalIdle
              /\ runs = [j \in Jobs |-> IF j = "live" THEN 1 ELSE 0]
              /\ runlog = [j \in Jobs |-> [p \in ParkIds |-> NoLog]]
              /\ snapIns = [p \in ParkIds |-> "none"]
              /\ faults = 0
              /\ \E n \in 0..MaxParkLen :
                    \E statuses \in [1..n -> {"open", "open_soon", "closed", "breakdown", "maintenance"}] :
                       live = [LiveIdle EXCEPT
                                 !.pc = "write", !.idx = 1, !.cat = Len(Categories) + 1,
                                 !.ins = IF n = 0 THEN "empty" ELSE "nodb",
                                 !.got = <<[i \in 1..n |->
                                              [id |-> <<Word.python, Word.baron1898, Word.droomvlucht, Word.sr \o Word.python>>[i],
                                               status |-> statuses[i],
                                               wait_time |-> IF statuses[i] = "open" THEN JInt(10) ELSE JNull,
                                               single_rider |-> None, virtual_queue |-> None]],
                                           <<>>, <<>>, <<>>>>]

NextStatus == \/ \E n \in WriteEnds : LiveWriteEnd(n) /\ UNCHANGED auxVars
              \/ \E n \in WriteEnds : LivePlaceholder(n) /\ UNCHANGED auxVars

SpecStatus == InitStatus /\ [][NextStatus]_vars

\* The two jobs on an event loop that goes on running what is ready: a request
\* and an insert end, with an answer or an error (the client's and the driver's
\* timeouts), and a coroutine that is ready is run.
\* While an operation has its answer from _fetch_wis nothing else can run, so
\* fairness of that one step is: the operation does not stay there for ever.
SpecFair == Init /\ [][NextTick]_vars /\ WF_vars(~LiveFetchResultReady /\ NextTick)
                 /\ []<>~LiveFetchResultReady

\* The live snapshots written by the runs the triggers start.
SpecOrder == Init /\ [][NextOrder]_vars

\* The four fetch operations on every upstream outcome.
SpecParse == InitOutcome /\ [][NextParse]_vars

\* ------------------------------------------------------------ C1
\* C1: a load_*_json call that has opened the final path returns exactly the
\* complete document that was the last one renamed onto that path when it
\* opened it (the previous one if a write was under way, else the new one):
\* never an empty, truncated or mixed document, and never a missing file.
C1_ReaderSeesCompleteDocument == (r.pc = "done" /\ r.result.kind # "503") =>
                                    /\ r.result.kind = "doc"
                                    /\ r.result.doc = r.expect
                                    /\ r.expect # NoDoc

\* A read that began under one document ends after another was renamed over it.
C1_Witness == /\ r.pc = "done"
              /\ r.result.kind = "doc"
              /\ committed[r.path] # r.result.doc
              /\ w.pc = "dump"

\* ------------------------------------------------------------ C10
\* C10: whatever step of _write_json fails or is cut short, the final file
\* holds exactly the complete document of the last call that reached its
\* rename (or does not exist if none did); a call that succeeds after an
\* interrupted one, temporary file left behind, stores exactly its document.
C10_FinalAlwaysLastCompleteWrite == \A q \in FinalPaths :
                                       IF committed[q] = NoDoc
                                       THEN ~Exists(fs, q)
                                       ELSE Exists(fs, q) /\ Content(fs, q) = DocOf(committed[q])

\* A call found a partial temporary file left by an interrupted one and completed.
C10_Witness == /\ wlog.outcome = "ok"
               /\ wlog.leftover
               /\ committed[FinalPath(wlog.park, wlog.file)] # NoDoc

\* ------------------------------------------------------------ C3
\* C3: of calls made one after the other, a call that starts less than
\* WIS_CACHE_SECONDS after the timestamp of the last successful fetch sends no
\* upstream request and returns that fetch's payload; a call that starts
\* WIS_CACHE_SECONDS or more after it sends a request and, when the request
\* succeeds, the cache holds the new payload stamped with the call's time.
C3_CacheWithinTtlThenRefresh == \A c \in Callers :
    (f[c].pc = "done" /\ f[c].seenFetch.time # NoTime) =>
       IF f[c].now - f[c].seenFetch.time < WIS_CACHE_SECONDS
       THEN /\ ~f[c].requested
            /\ f[c].result = [kind |-> "payload", data |-> f[c].seenFetch.data]
            /\ lastFetch = f[c].seenFetch
       ELSE /\ f[c].requested
            /\ f[c].result.kind = "payload" =>
                  /\ cache = f[c].result.data
                  /\ cacheTime = f[c].now
                  /\ lastFetch.time = f[c].now

\* A call was served from the cache and a later one, past the TTL, refreshed it.
C3_Witness == \E c \in Callers :
                 /\ f[c].pc = "done"
                 /\ f[c].requested
                 /\ f[c].result.kind = "payload"
                 /\ f[c].seenFetch.time # NoTime
                 /\ f[c].now - f[c].seenFetch.time = WIS_CACHE_SECONDS
                 /\ f[c].result.data # f[c].seenFetch.data

\* ------------------------------------------------------------ C4
\* C4: callers of _fetch_wis that are in flight together behind an empty or
\* expired cache share one upstream request: no two calls wait for an upstream
\* response at the same time.
C4_OneRequestForConcurrentCallers == \A c, d \in Callers :
                                        (f[c].pc = "await" /\ f[d].pc = "await") => c = d

\* ------------------------------------------------------------ C5
\* C5: when the upstream request of a call fails, the call raises and the
\* cached payload and its timestamp are what they were when the call began;
\* in particular a call that found the cache expired never answers with the
\* payload cached before.
C5_FailedRefreshKeepsCacheAndRaises == \A c \in Callers :
    (f[c].pc = "done" /\ f[c].failed) =>
       /\ f[c].result.kind = "raised"
       /\ cache = f[c].seenCache
       /\ cacheTime = f[c].seenTime

\* A refresh failed while an expired payload was still in the cache.
C5_Witness == \E c \in Callers :
                 /\ f[c].pc = "done"
                 /\ f[c].failed
                 /\ f[c].seenCache # None
                 /\ f[c].now - f[c].seenTime >= WIS_CACHE_SECONDS

\* ------------------------------------------------------------ C2
\* C2: when a run of fetch_all_live or fetch_all_calendars has ended, every
\* registered source was processed in it, whether or not a source before it
\* raised (in its fetch, its history insert or its write), and every source
\* whose own processing did not raise has its live.json / calendar.json
\* replaced by the document of that run.
C2_OtherSourcesStillWritten ==
    /\ live.pc = "done" =>
         \A p \in ParkIds :
            /\ runlog["live"][p].outcome \in {"ok", "raised"}
            /\ runlog["live"][p].outcome = "ok" =>
                 /\ Parse(Content(fs, FinalPath(p, "live.json"))).kind = "doc"
                 /\ Parse(Content(fs, FinalPath(p, "live.json"))).doc.park_id = p
                 /\ Parse(Content(fs, FinalPath(p, "live.json"))).doc.last_updated = runlog["live"][p].now
    /\ cal.pc = "done" =>
         \A p \in ParkIds :
            /\ runlog["calendar"][p].outcome \in {"ok", "raised"}
            /\ runlog["calendar"][p].outcome = "ok" =>
                 /\ Parse(Content(fs, FinalPath(p, "calendar.json"))).kind = "doc"
                 /\ Parse(Content(fs, FinalPath(p, "calendar.json"))).doc.park_id = p
                 /\ Parse(Content(fs, FinalPath(p, "calendar.json"))).doc.last_updated =
                      runlog["calendar"][p].now

\* A live run ended in which the first source raised and the sources after it were written.
C2_Witness == /\ live.pc = "done"
              /\ runlog["live"][PARKS[1]].outcome = "raised"
              /\ \A i \in 2..Len(PARKS) : runlog["live"][PARKS[i]].wrote

\* ------------------------------------------------------------ C6
\* C6: within one live tick of one source at most one upstream WIS request is
\* sent, also when that request fails and the operations for shows,
\* restaurants and shops run after it.
C6_AtMostOneRequestPerTick == live.reqs <= 1

C8_InsertFinishedBeforeWrite ==
    /\ live.pc = "write" => live.ins \in {"ok", "failed", "nodb", "empty"}
    /\ live.ins = "inflight" => live.pc = "insert_wait"
    /\ \A p \in ParkIds : snapIns[p] # "inflight"
    /\ \A p \in ParkIds : runlog["live"][p].outcome # "none" => runlog["live"][p].ins # "inflight"

\* A step that inserted its documents and then wrote its snapshot has ended.
C8_Witness == /\ runlog["live"][PARKS[1]].outcome = "ok"
              /\ runlog["live"][PARKS[1]].ins = "ok"
              /\ runlog["live"][PARKS[1]].wrote
              /\ history # {}

\* ------------------------------------------------------------ C9
\* C9: a live step whose insert raised, or that had no storage handle, goes on
\* to _write_json, and unless _write_json itself raises the step ends without
\* an exception and with live.json replaced by the document of that tick.
C9_InsertFailureDoesNotBlockSnapshot ==
    /\ (live.pc \in {"insert_wait", "write"} /\ live.ins \in {"failed", "nodb"}) => live.pc = "write"
    /\ \A p \in ParkIds :
          (runlog["live"][p].outcome # "none" /\ runlog["live"][p].ins \in {"failed", "nodb"}) =>
             \/ runlog["live"][p].wfail
             \/ /\ runlog["live"][p].outcome = "ok"
                /\ Parse(Content(fs, FinalPath(p, "live.json"))).kind = "doc"
                /\ Parse(Content(fs, FinalPath(p, "live.json"))).doc.last_updated = runlog["live"][p].now

\* The insert of a step raised and the step wrote its snapshot.
C9_Witness == /\ dbReady
              /\ runlog["live"][PARKS[1]].ins = "failed"
              /\ runlog["live"][PARKS[1]].outcome = "ok"
              /\ runlog["live"][PARKS[1]].wrote

\* ------------------------------------------------------------ C11
\* C11: neither job ever has two runs in progress: a trigger that comes due
\* while the job's previous run is still going on starts no second run.
C11_AtMostOneRunPerJob == \A j \in Jobs : running[j] <= 1

\* The live trigger came due a second time during the first run, which is still the only one.
C11_Witness == /\ fired["live"] = 2
               /\ lastEnd["live"] = "none"
               /\ running["live"] = 1

\* ------------------------------------------------------------ C12
\* C12: each job's trigger is first due at the start and then every interval
\* (5 minutes, 24 hours), never late; its first run starts at the start; and a
\* due trigger of a job that is not running starts a run whatever the other
\* job is doing and however its runs ended.
C12_ImmediateThenFixedIntervals ==
    /\ [](\A j \in Jobs : /\ nextRun[j] = fired[j] * IntervalMinutes[j]
                          /\ nextRun[j] >= stime
                          /\ stime > 0 => fired[j] >= 1
                          /\ fired[j] >= 1 => firstStart[j] = 0)
    /\ [][\A j \in Jobs : (fired'[j] = fired[j] + 1 /\ running[j] = 0) => running'[j] = 1]_vars

\* The calendar's second run has started on time during a live run that followed a failed one.
C12_Witness == /\ stime = IntervalMinutes["calendar"]
               /\ fired["calendar"] = 2
               /\ running["calendar"] = 1
               /\ running["live"] = 1
               /\ lastEnd["live"] = "error"

\* ------------------------------------------------------------ C13
\* C13: whatever _fetch_wis gives (an exception, or a document whose entries
\* lack fields or carry fields of the wrong type), each of the four fetch
\* operations returns a list and none lets an exception out.
C13_FetchNeverRaises == \A c \in 1..Len(Categories) : pout[c].kind # "raised"

\* ------------------------------------------------------------ C14
\* C14: when one entry of the document is malformed, the well-formed attraction
\* that comes with it in the same document is still in the result of
\* fetch_wait_times.
C14_SiblingsKept ==
    ( /\ pin.kind = "payload"
      /\ \E i \in 1..Len(pin.data.AttractionInfo) : pin.data.AttractionInfo[i] = Siblings[1]
      /\ pout[1] # NoResult ) =>
        \E i \in 1..Len(pout[1].items) : pout[1].items[i].id = ResolvedId(Siblings[1].Id)

\* ------------------------------------------------------------ C15
\* C15: a source's live step ends without having written its snapshot only
\* when the write of the snapshot itself failed: a failure while one of the
\* four categories is produced leaves the step going.
C15_BrokenCategoryDoesNotBlock ==
    \A p \in ParkIds : runlog["live"][p].outcome = "raised" => runlog["live"][p].wfail

\* ------------------------------------------------------------ C16
\* C16: for a State that is a string, null or absent, _map_state gives no
\* error, and the status of the attraction is the documented value of the
\* known word the string is in any case and between any blanks (open -> open,
\* nognietopen -> open_soon, storing and tijdelijkbuitenbedrijf -> breakdown,
\* inonderhoud -> maintenance, the other known words -> closed), and closed for
\* every other string, the empty string, null and an absent State.
C16_StateMapping ==
    (pin.kind = "payload" /\ pout[1] # NoResult) =>
        LET e == pin.data.AttractionInfo[1]
            documented == (Word.open :> "open") @@ (Word.nognietopen :> "open_soon")
                          @@ (Word.storing :> "breakdown") @@ (Word.tijdelijkbuitenbedrijf :> "breakdown")
                          @@ (Word.inonderhoud :> "maintenance") @@ (Word.buitenbedrijf :> "closed")
                          @@ (Word.gesloten :> "closed") @@ (Word.wachtrijgesloten :> "closed")
            text == "State" \notin DOMAIN e \/ e.State.t \in {"str", "null"}
            known == {k \in KnownStates : /\ "State" \in DOMAIN e
                                          /\ e.State.t = "str"
                                          /\ e.State.v \in {k, Upper(k), Padded(k)}}
        IN  /\ (text /\ "Id" \in DOMAIN e /\ "VirtualQueue" \notin DOMAIN e) => pout[1].kind = "list"
            /\ (text /\ pout[1].kind = "list") =>
                  IF known = {} THEN pout[1].items[1].status = "closed"
                  ELSE \A k \in known : pout[1].items[1].status = documented[k]

\* " STORING " in capitals has been mapped to breakdown.
C16_Witness == /\ pin.kind = "payload"
               /\ "State" \in DOMAIN pin.data.AttractionInfo[1]
               /\ pin.data.AttractionInfo[1].State = JStr(Upper(Word.storing))
               /\ pout[1].kind = "list"
               /\ pout[1].items[1].status = "breakdown"

\* ------------------------------------------------------------ C17
\* C17: every AttractionLive that fetch_wait_times returns has a null
\* wait_time unless its status is open.
C17_WaitOnlyWhenOpen ==
    \A i \in 1..Len(pout[1].items) :
        pout[1].items[i].status # "open" => pout[1].items[i].wait_time = JNull

\* An attraction in breakdown that came with a raw wait of 10 minutes has no wait_time.
C17_Witness == /\ pin.kind = "payload"
               /\ "WaitingTime" \in DOMAIN pin.data.AttractionInfo[1]
               /\ pin.data.AttractionInfo[1].WaitingTime = JInt(10)
               /\ pout[1].kind = "list"
               /\ pout[1].items[1].status = "breakdown"
               /\ pout[1].items[1].wait_time = JNull

\* ------------------------------------------------------------ C18
\* C18: in every VirtualQueueInfo that fetch_wait_times returns, the state is
\* available exactly when return_start and return_end are both set, and then
\* return_end is 15 minutes after return_start.
C18_WindowIffAvailable ==
    \A i \in 1..Len(pout[1].items) :
        LET q == pout[1].items[i].virtual_queue
        IN  q.kind = "VirtualQueueInfo" =>
               /\ q.state = "available" <=> (q.return_start # JNull /\ q.return_end # JNull)
               /\ (q.return_start # JNull /\ q.return_end # JNull) =>
                     q.return_end.v - q.return_start.v = 15 * 60

\* A window computed one second before midnight for a wait of 20 minutes.
C18_Witness == /\ pnow = 86399
               /\ pin.kind = "payload"
               /\ pout[1].kind = "list"
               /\ pout[1].items[1].virtual_queue.kind = "VirtualQueueInfo"
               /\ pout[1].items[1].virtual_queue.state = "available"
               /\ pout[1].items[1].virtual_queue.return_start = JInt(86340 + 20 * 60)
               /\ pout[1].items[1].virtual_queue.return_end = JInt(86340 + 35 * 60)

\* ------------------------------------------------------------ C19
\* C19 as stated: for an attraction whose VirtualQueue is an object (its State
\* a string, null or absent), the result carries a VirtualQueueInfo whose state
\* is temporarily_full for walkin, available for enabled, full for full, in any
\* case, and closed for every other State; without a return window unless
\* the state is available.
C19_QueueStateMapping ==
    (pin.kind = "payload" /\ pout[1].kind = "list") =>
        LET e == pin.data.AttractionInfo[1]
            q == pout[1].items[1].virtual_queue
        IN  ("VirtualQueue" \in DOMAIN e /\ e.VirtualQueue.t = "obj") =>
               LET vq == e.VirtualQueue.v
                   raw == IF "State" \in DOMAIN vq /\ vq.State.t = "str" THEN vq.State.v ELSE <<>>
                   expected == CASE raw \in {Word.walkin, Upper(Word.walkin)} -> "temporarily_full"
                                 [] raw \in {Word.enabled, Upper(Word.enabled)} -> "available"
                                 [] raw \in {Word.full, Upper(Word.full)} -> "full"
                                 [] OTHER -> "closed"
               IN  /\ q.kind = "VirtualQueueInfo"
                   /\ q.state = expected
                   /\ expected # "available" => (q.return_start = JNull /\ q.return_end = JNull)

\* C19 amended: the same for a VirtualQueue object that has at least one
\* field; an empty object gives the attraction no VirtualQueueInfo at all.
C19_QueueStateMappingNonEmpty ==
    (pin.kind = "payload" /\ pout[1].kind = "list") =>
        LET e == pin.data.AttractionInfo[1]
            q == pout[1].items[1].virtual_queue
        IN  ("VirtualQueue" \in DOMAIN e /\ e.VirtualQueue.t = "obj") =>
               LET vq == e.VirtualQueue.v
                   raw == IF "State" \in DOMAIN vq /\ vq.State.t = "str" THEN vq.State.v ELSE <<>>
                   expected == CASE raw \in {Word.walkin, Upper(Word.walkin)} -> "temporarily_full"
                                 [] raw \in {Word.enabled, Upper(Word.enabled)} -> "available"
                                 [] raw \in {Word.full, Upper(Word.full)} -> "full"
                                 [] OTHER -> "closed"
               IN  IF DOMAIN vq = {} THEN q.kind = "None"
                   ELSE /\ q.kind = "VirtualQueueInfo"
                        /\ q.state = expected
                        /\ expected # "available" => (q.return_start = JNull /\ q.return_end = JNull)

\* WALKIN in capitals has given temporarily_full without a window.
C19_Witness == /\ pin.kind = "payload"
               /\ "VirtualQueue" \in DOMAIN pin.data.AttractionInfo[1]
               /\ pin.data.AttractionInfo[1].VirtualQueue.t = "obj"
               /\ "State" \in DOMAIN pin.data.AttractionInfo[1].VirtualQueue.v
               /\ pin.data.AttractionInfo[1].VirtualQueue.v.State = JStr(Upper(Word.walkin))
               /\ pout[1].kind = "list"
               /\ pout[1].items[1].virtual_queue.kind = "VirtualQueueInfo"
               /\ pout[1].items[1].virtual_queue.state = "temporarily_full"
               /\ pout[1].items[1].virtual_queue.return_start = JNull

\* ------------------------------------------------------------ C20
\* C20: for a queue in state enabled whose WaitingTime is an integer w >= 0,
\* return_start is the park-local time now with its seconds set to zero plus w
\* minutes, and return_end is 15 minutes after return_start.
C20_ReturnWindowArithmetic ==
    (pin.kind = "payload" /\ pout[1].kind = "list") =>
        LET e == pin.data.AttractionInfo[1]
            q == pout[1].items[1].virtual_queue
        IN  ( /\ "VirtualQueue" \in DOMAIN e
              /\ e.VirtualQueue.t = "obj"
              /\ {"State", "WaitingTime"} \subseteq DOMAIN e.VirtualQueue.v
              /\ e.VirtualQueue.v.State = JStr(Word.enabled)
              /\ e.VirtualQueue.v.WaitingTime.t = "int"
              /\ e.VirtualQueue.v.WaitingTime.v >= 0 ) =>
                 /\ q.kind = "VirtualQueueInfo"
                 /\ q.return_start = JInt((pnow - (pnow % 60)) + 60 * e.VirtualQueue.v.WaitingTime.v)
                 /\ q.return_end = JInt((pnow - (pnow % 60)) + 60 * e.VirtualQueue.v.WaitingTime.v + 15 * 60)

\* The example: w = 20 at 14:00:37 gives 14:20:00 and 14:35:00.
C20_Witness == /\ pnow = 50437
               /\ pin.kind = "payload"
               /\ "VirtualQueue" \in DOMAIN pin.data.AttractionInfo[1]
               /\ pin.data.AttractionInfo[1].VirtualQueue.t = "obj"
               /\ "WaitingTime" \in DOMAIN pin.data.AttractionInfo[1].VirtualQueue.v
               /\ pin.data.AttractionInfo[1].VirtualQueue.v.WaitingTime = JInt(20)
               /\ pout[1].kind = "list"
               /\ pout[1].items[1].virtual_queue.kind = "VirtualQueueInfo"
               /\ pout[1].items[1].virtual_queue.return_start = JInt(51600)
               /\ pout[1].items[1].virtual_queue.return_end = JInt(52500)

\* ------------------------------------------------------------ C21
\* C21: for a queue in state enabled whose WaitingTime is negative, absent,
\* null or not a number, return_start is the park-local time now with its
\* seconds set to zero; and whatever the WaitingTime, return_start is never
\* earlier than that time.
C21_BadWaitCountsAsZero ==
    (pin.kind = "payload" /\ pout[1].kind = "list") =>
        LET e == pin.data.AttractionInfo[1]
            q == pout[1].items[1].virtual_queue
        IN  ( /\ "VirtualQueue" \in DOMAIN e
              /\ e.VirtualQueue.t = "obj"
              /\ "State" \in DOMAIN e.VirtualQueue.v
              /\ e.VirtualQueue.v.State = JStr(Word.enabled) ) =>
                 LET vq == e.VirtualQueue.v
                     bad == \/ "WaitingTime" \notin DOMAIN vq
                            \/ vq.WaitingTime.t = "null"
                            \/ vq.WaitingTime.t = "int" /\ vq.WaitingTime.v < 0
                            \/ vq.WaitingTime = JStr(<<"a", "b", "c">>)
                 IN  /\ q.kind = "VirtualQueueInfo"
                     /\ q.return_start.v >= pnow - (pnow % 60)
                     /\ bad => q.return_start.v = pnow - (pnow % 60)

\* ------------------------------------------------------------ C22
\* C22: when the document holds an attraction P and an entry S whose Id is
\* P's Id followed by sr or singlerider, the result of fetch_wait_times has
\* exactly one entity for P, which carries single_rider with available true,
\* open exactly when the status of S is open and with the wait time of S, and
\* it has no entity under the Id of S.
C22_SingleRiderMerged ==
    (pin.kind = "payload" /\ pout[1].kind = "list") =>
        LET entries == pin.data.AttractionInfo
            items == pout[1].items
        IN  \A p \in 1..Len(entries), s \in 1..Len(entries) :
               ( /\ entries[p].Type \in {"Attraction", "Attracties"}
                 /\ entries[s].Id \in {entries[p].Id \o Word.sr, entries[p].Id \o Word.singlerider} ) =>
                  /\ Cardinality({i \in 1..Len(items) : items[i].id = ResolvedId(entries[p].Id)}) = 1
                  /\ \A i \in 1..Len(items) :
                        items[i].id = ResolvedId(entries[p].Id) =>
                           /\ items[i].single_rider.kind = "SingleRiderInfo"
                           /\ items[i].single_rider.available
                           /\ items[i].single_rider.status = "open" <=> entries[s].State = JStr(Word.open)
                           /\ items[i].single_rider.wait_time =
                                 IF entries[s].State = JStr(Word.open) THEN entries[s].WaitingTime ELSE JNull
                  /\ \A i \in 1..Len(items) : items[i].id # entries[s].Id

\* ------------------------------------------------------------ C23
\* C23: no entity in the result of fetch_wait_times has an Id that contains
\* singlerider or ends with sr, in any case, whether or not the document holds
\* the attraction it belongs to.
C23_NoStandaloneSingleRider ==
    \A i \in 1..Len(pout[1].items) :
        LET lower == Lower(pout[1].items[i].id)
        IN  /\ \A k \in 1..(Len(lower) - Len(Word.singlerider) + 1) :
                   SubSeq(lower, k, k + Len(Word.singlerider) - 1) # Word.singlerider
            /\ Len(lower) >= 2 => SubSeq(lower, Len(lower) - 1, Len(lower)) # Word.sr

\* ------------------------------------------------------------ C24
\* C24: an entry droomvluchtstandby is returned under the Id droomvlucht, and
\* when the document also holds a single-rider entry droomvluchtsr, that
\* entity carries its single_rider, also when the document has no entry
\* droomvlucht.
C24_AliasBeforeMerge ==
    (pin.kind = "payload" /\ pout[1].kind = "list") =>
        LET entries == pin.data.AttractionInfo
            items == pout[1].items
        IN  (\E p \in 1..Len(entries) : /\ entries[p].Id = Word.droomvluchtstandby
                                        /\ entries[p].Type \in {"Attraction", "Attracties"}) =>
               /\ \E i \in 1..Len(items) : items[i].id = Word.droomvlucht
               /\ \A i \in 1..Len(items) : items[i].id # Word.droomvluchtstandby
               /\ (\E s \in 1..Len(entries) : entries[s].Id = Word.droomvlucht \o Word.sr) =>
                     \E i \in 1..Len(items) : /\ items[i].id = Word.droomvlucht
                                              /\ items[i].single_rider.kind = "SingleRiderInfo"

\* ------------------------------------------------------------ C25
\* C25: every show that fetch_shows returns is open exactly when at least one
\* of its parsed intervals ends later than the park-local time now; a show
\* whose only interval has started and not ended is open.
C25_ShowOpenUntilEnded ==
    \A i \in 1..Len(pout[2].items) :
        pout[2].items[i].status = "open" <=>
            \E k \in 1..Len(pout[2].items[i].show_times) :
                pout[2].items[i].show_times[k].end_date_time > pnow

\* ------------------------------------------------------------ C26
\* C26: fetch_calendar never raises; a month whose request gives status 400
\* or fails in any other way adds no day, and the days of the other months
\* are all in the calendar, in the order of the months.
C26_FailedMonthSkipped ==
    /\ ~cout.raised
    /\ LET Dates(k) == IF cin[k].kind = "payload" /\ cin[k].data # JNull
                       THEN [i \in 1..Len(cin[k].data.OpeningHours) |-> cin[k].data.OpeningHours[i].Date]
                       ELSE <<>>
           dates == [i \in 1..Len(cout.days) |-> cout.days[i].date]
       IN  /\ cout.offset = 1 => dates = Dates(1)
           /\ cout.offset = 2 => dates = Dates(1) \o Dates(2)
           /\ cout.offset = 3 => dates = Dates(1) \o Dates(2) \o Dates(3)

\* ------------------------------------------------------------ C27
\* C27: in every ParkDay of the calendar the intervals are in ascending order
\* of their opening time, the first is tagged operating and all later ones
\* informational, and is_open is true exactly when the day has an interval.
C27_HoursSortedAndTagged ==
    \A i \in 1..Len(cout.days) :
        LET day == cout.days[i]
        IN  /\ \A a \in 1..Len(day.hours), b \in 1..Len(day.hours) :
                  a < b => LexKey(day.hours[a].opening_time) <= LexKey(day.hours[b].opening_time)
            /\ \A a \in 1..Len(day.hours) :
                  day.hours[a].type = IF a = 1 THEN "operating" ELSE "informational"
            /\ Cardinality({a \in 1..Len(day.hours) : day.hours[a].type = "operating"})
                  = IF Len(day.hours) > 0 THEN 1 ELSE 0
            /\ day.is_open <=> Len(day.hours) > 0

\* A day sent with the evening interval before the regular one: the regular one is the operating interval.
C27_Witness == /\ Len(cin) = 3
               /\ cout.offset = 1
               /\ cin[1].kind = "payload"
               /\ cin[1].data # JNull
               /\ Len(cin[1].data.OpeningHours) = 1
               /\ "OpeningHours" \in DOMAIN cin[1].data.OpeningHours[1]
               /\ Len(cin[1].data.OpeningHours[1].OpeningHours) = 2
               /\ cin[1].data.OpeningHours[1].OpeningHours[1].Close = <<"2", "3", ":", "0", "0">>
               /\ cout.days[1].hours[1].closing_time = <<"1", "8", ":", "0", "0">>
               /\ cout.days[1].hours[1].type = "operating"
               /\ cout.days[1].hours[2].type = "informational"
               /\ cout.days[1].is_open

\* ------------------------------------------------------------ C28
\* C28: every identifier the serving layer accepts has a connector in PARKS;
\* for each placeholder source, every live snapshot written holds four empty
\* lists, every calendar written holds no days, and its steps of a run end
\* with an exception only when writing the file failed, never because the
\* connector raised.
C28_RegistryTotalPlaceholdersEmpty ==
    /\ SUPPORTED_PARKS \subseteq ParkIds
    /\ \A p \in SUPPORTED_PARKS :
          ~IsEfteling(p) =>
             /\ LET doc == committed[FinalPath(p, "live.json")]
                IN  doc # NoDoc => /\ doc.attractions = <<>>
                                   /\ doc.shows = <<>>
                                   /\ doc.restaurants = <<>>
                                   /\ doc.shops = <<>>
             /\ LET doc == committed[FinalPath(p, "calendar.json")]
                IN  doc # NoDoc => doc.days = <<>>
             /\ \A j \in Jobs : runlog[j][p].outcome = "raised" => runlog[j][p].wfail

\* The last source of the registry, a placeholder, has both files written: an empty snapshot and an empty calendar.
C28_Witness == /\ committed[FinalPath("phantasialand", "live.json")] # NoDoc
               /\ committed[FinalPath("phantasialand", "live.json")].attractions = <<>>
               /\ committed[FinalPath("phantasialand", "calendar.json")] # NoDoc
               /\ committed[FinalPath("phantasialand", "calendar.json")].days = <<>>
               /\ runlog["live"]["phantasialand"].outcome = "ok"

\* ------------------------------------------------------------ C29
\* C29: when the history insert of a source's step fails because records of
\* the batch were rejected, the other records of the batch are in the store,
\* and the pipeline's log names the number of records that were stored.
C29_PartialInsertCounted ==
    /\ live.pc = "write"
    /\ live.ins = "failed"
    /\ Cardinality(HistoryDocs(live, PARKS[live.idx]) \ live.stored) = 1
    => /\ live.stored \subseteq history
       /\ live.reported = [kind |-> "count", n |-> Cardinality(live.stored)]

\* ------------------------------------------------------------ C30
\* C30: the single-ride history query returns exactly the stored records of
\* the requested source and ride within the requested time range, in
\* ascending order of timestamp; the all-rides query returns one group per
\* ride identifier that has a record of the source in the range, the groups
\* in ascending order of ride identifier and the records of every group in
\* ascending order of timestamp.
C30_HistoryFilteredAndOrdered ==
    LET Count(points, t) == Cardinality({i \in 1..Len(points) : points[i].timestamp = t})
        Stored(p, ride, t) == Cardinality({i \in 1..Len(hin) : /\ hin[i].park_id = p
                                                               /\ hin[i].ride_id = ride
                                                               /\ hin[i].timestamp = t})
        Ascending(points) == \A a \in 1..Len(points), b \in 1..Len(points) :
                                a < b => points[a].timestamp <= points[b].timestamp
        Stamps == {hin[i].timestamp : i \in 1..Len(hin)}
    IN  /\ hout.kind = "ride" =>
              /\ Ascending(hout.history)
              /\ hout.data_points = Len(hout.history)
              /\ \A i \in 1..Len(hout.history) : hout.history[i].timestamp \in Stamps
              /\ \A t \in Stamps :
                    Count(hout.history, t) =
                       IF IF hout.date # None
                          THEN 24 * hout.date.v <= t /\ t < 24 * (hout.date.v + 1)
                          ELSE t >= HistoryNow - hout.hours
                       THEN Stored(hout.park_id, hout.ride_id, t) ELSE 0
        /\ hout.kind = "all" =>
              /\ \A a \in 1..Len(hout.rides), b \in 1..Len(hout.rides) :
                    a < b => /\ hout.rides[a].ride_id # hout.rides[b].ride_id
                             /\ LexKey(hout.rides[a].ride_id) < LexKey(hout.rides[b].ride_id)
              /\ \A a \in 1..Len(hout.rides) :
                    /\ Ascending(hout.rides[a].history)
                    /\ Len(hout.rides[a].history) > 0
                    /\ \A i \in 1..Len(hout.rides[a].history) :
                          hout.rides[a].history[i].timestamp \in Stamps
                    /\ \A t \in Stamps :
                          Count(hout.rides[a].history, t) =
                             IF t >= HistoryNow - hout.hours
                             THEN Stored(hout.park_id, hout.rides[a].ride_id, t) ELSE 0
              /\ \A i \in 1..Len(hin) :
                    hin[i].park_id = hout.park_id /\ hin[i].timestamp >= HistoryNow - hout.hours
                       => \E a \in 1..Len(hout.rides) : hout.rides[a].ride_id = hin[i].ride_id

\* A single-ride query over a collection that holds the ride's records newest first, next to a record of another source.
C30_WitnessRide == /\ hout.kind = "ride"
                   /\ Len(hin) = 3
                   /\ hin[1] = [park_id |-> "efteling", ride_id |-> Word.python, timestamp |-> 2400]
                   /\ hin[2] = [park_id |-> "europapark", ride_id |-> Word.python, timestamp |-> 2399]
                   /\ hin[3] = [park_id |-> "efteling", ride_id |-> Word.python, timestamp |-> 2399]
                   /\ hout.park_id = "efteling"
                   /\ hout.ride_id = Word.python
                   /\ hout.history = <<[timestamp |-> 2399], [timestamp |-> 2400]>>

\* ------------------------------------------------------------ C31
\* C31: once the TTL monitor has run, no query returns a record whose
\* timestamp is more than 90 days in the past; and whether it has run or not,
\* every record that was stored with a timestamp within the 90 days is still
\* in the store and, when the query asks for it, in the response.
C31_RetentionHorizon ==
    LET Old(t) == HistoryNow - t > 24 * 90
        Asked(doc) == /\ doc.park_id = hout.park_id
                      /\ doc.ride_id = hout.ride_id
                      /\ IF hout.date # None
                         THEN 24 * hout.date.v <= doc.timestamp /\ doc.timestamp < 24 * (hout.date.v + 1)
                         ELSE doc.timestamp >= HistoryNow - hout.hours
        Returned(t) == Cardinality({i \in 1..Len(hout.history) : hout.history[i].timestamp = t})
    IN  /\ hkept.swept => \A i \in 1..Len(hin) : ~Old(hin[i].timestamp)
        /\ \A i \in 1..Len(hkept.stored) :
              ~Old(hkept.stored[i].timestamp) =>
                 Cardinality({j \in 1..Len(hin) : hin[j] = hkept.stored[i]})
                    = Cardinality({j \in 1..Len(hkept.stored) : hkept.stored[j] = hkept.stored[i]})
        /\ hout.kind = "ride" =>
              /\ hkept.swept => \A i \in 1..Len(hout.history) : ~Old(hout.history[i].timestamp)
              /\ \A i \in 1..Len(hkept.stored) :
                    Asked(hkept.stored[i]) /\ ~Old(hkept.stored[i].timestamp) =>
                       Returned(hkept.stored[i].timestamp)
                          = Cardinality({j \in 1..Len(hkept.stored) :
                                            /\ Asked(hkept.stored[j])
                                            /\ hkept.stored[j].timestamp = hkept.stored[i].timestamp})
        /\ hout.kind = "all" =>
              /\ hkept.swept => \A a \in 1..Len(hout.rides) : \A i \in 1..Len(hout.rides[a].history) :
                                   ~Old(hout.rides[a].history[i].timestamp)

\* A record a hundred days old was asked for by its date after the monitor had run: the response is empty, and the store still holds the record of the last hour.
C31_Witness == /\ hkept.swept
               /\ Len(hkept.stored) = 2
               /\ hkept.stored[1] = [park_id |-> "efteling", ride_id |-> Word.python, timestamp |-> 200]
               /\ hkept.stored[2] = [park_id |-> "efteling", ride_id |-> Word.python, timestamp |-> 2399]
               /\ hin = <<hkept.stored[2]>>
               /\ hout.kind = "ride"
               /\ hout.park_id = "efteling"
               /\ hout.ride_id = Word.python
               /\ hout.date = [v |-> 8]
               /\ hout.history = <<>>

\* ------------------------------------------------------------ C32
\* C32: a load_*_json call answers 503 ('not yet available') exactly when the
\* file does not exist at its check; a file that exists exists in every later
\* state, and it exists once a document has been renamed onto it, so from
\* then on no call answers 503; a call that found the file returns the
\* document in it, an empty aggregate as a document with empty lists.
C32_NotYetAvailableIffAbsent ==
    [][/\ r.pc = "idle" /\ r'.pc # "idle" =>
             (r'.result.kind = "503" <=> ~Exists(fs, r'.path))
       /\ r'.result.kind = "503" /\ r.result.kind # "503" =>
             r.pc = "idle" /\ committed[r'.path] = NoDoc
       /\ \A q \in FinalPaths : /\ Exists(fs, q) => Exists(fs', q)
                                /\ committed'[q] # NoDoc => Exists(fs', q)
       /\ r.pc \in {"open", "read"} /\ r'.pc = "done" =>
             /\ r'.result.kind = "doc"
             /\ r'.result.doc # NoDoc
             /\ r'.result.doc.attractions = <<>> <=> r'.result.doc.last_updated = 1
      ]_vars

\* With the next write under way, a reader is handed the empty aggregate that was written before.
C32_Witness == /\ r.pc = "done"
               /\ r.result.kind = "doc"
               /\ r.result.doc.attractions = <<>>
               /\ committed[r.path] = r.result.doc
               /\ w.pc = "dump"
               /\ w.data.attractions # <<>>

\* ------------------------------------------------------------ C33
\* C33: the attractions that fetch_wait_times returns for one document have
\* pairwise distinct identifiers, also after droomvluchtstandby has been given
\* the Id droomvlucht, so the history documents built from them in one step,
\* one per attraction with the source and the time of the step, have pairwise
\* distinct (park_id, ride_id, timestamp).
C33_DistinctIdsPerTick ==
    LET items == pout[1].items
        Key(i) == <<"efteling", items[i].id, pnow>>
    IN  \A i, j \in 1..Len(items) : i # j => Key(i) # Key(j)

\* ------------------------------------------------------------ C34
\* C34: the four lists of a live snapshot that has been written come from one
\* and the same upstream response: the four operations of the step were all
\* given the document of the same response, none was given the document of
\* another response and none the exception of a failed request.
C34_SnapshotFromOneResponse ==
    \A p \in ParkIds :
        LET log == runlog["live"][p]
        IN  log.wrote => \A c \in 1..Len(log.origin) : /\ log.origin[c].kind = "payload"
                                                        /\ log.origin[c] = log.origin[1]

\* ------------------------------------------------------------ C35
\* C35: for each source, a step that changes the visible live.json leaves a
\* snapshot whose last_updated is not smaller than that of the snapshot it
\* replaces: the snapshot of a later tick is never overwritten by the snapshot
\* of an earlier one.
C35_LastUpdatedNeverDecreases ==
    [][\A p \in ParkIds :
          LET old == committed[FinalPath(p, "live.json")]
              new == committed'[FinalPath(p, "live.json")]
          IN  old # NoDoc => new # NoDoc /\ new.last_updated >= old.last_updated]_vars

\* Two ticks have written: the later one has replaced the snapshot of the first
\* source, and the snapshot of another source is still the one of the tick before.
C35_Witness == /\ committed[FinalPath(PARKS[1], "live.json")] = [park_id |-> PARKS[1], last_updated |-> 5]
               /\ committed[FinalPath(PARKS[2], "live.json")] = [park_id |-> PARKS[2], last_updated |-> 0]
               /\ running["live"] = 0

\* ------------------------------------------------------------ C36
\* C36: however a live tick and a calendar tick on the same source interleave,
\* a write fails only by an error of its own (the directory made by the other
\* job is no error), live.json and live.json.tmp hold nothing but live
\* aggregates, and calendar.json and calendar.json.tmp nothing but calendar
\* aggregates.
C36_JobsKeepToTheirFiles ==
    [][/\ fs' # fs =>
             \A path \in AllPaths :
                 LET mark == IF path[2] \in {"live.json", "live.json.tmp"} THEN "attractions" ELSE "days"
                     content == fs'.files[path].data
                 IN  fs'.files[path] # fs.files[path] =>
                        \A i \in 1..Len(content) : mark \in DOMAIN content[i][1]
       /\ committed' # committed =>
             \A path \in FinalPaths :
                 committed'[path] # committed[path] =>
                    (IF path[2] = "live.json" THEN "attractions" ELSE "days") \in DOMAIN committed'[path]
       /\ runlog' # runlog =>
             \A p \in ParkIds, j \in Jobs :
                 (runlog'[j][p].wfail /\ ~runlog[j][p].wfail) => faults' = faults + 1
      ]_vars

\* The live tick of the first source is waiting for its insert, and meanwhile the
\* calendar tick has made the directory and written calendar.json of that source.
C36_Witness == /\ live.pc = "insert_wait"
               /\ live.idx = 1
               /\ runlog["calendar"][PARKS[1]].wrote
               /\ PARKS[1] \in fs.dirs
               /\ Parse(Content(fs, FinalPath(PARKS[1], "calendar.json"))).doc = committed[FinalPath(PARKS[1], "calendar.json")]
               /\ ~Exists(fs, FinalPath(PARKS[1], "live.json"))

\* ------------------------------------------------------------ C37
\* C37: no step of a tick takes a record out of the history store or changes
\* one; the records a step puts in are records of attractions of the source
\* being processed (none of a show, restaurant or shop), each with the time
\* the source's step took as `now`; and a step that replaces live.json writes
\* that same time as last_updated.
C37_HistoryInsertOnly ==
    [][/\ history \subseteq history'
       /\ \A d \in history' \ history :
              /\ d.park_id = PARKS[live.idx]
              /\ d.timestamp = live'.now
              /\ \E i \in 1..Len(live.got[1]) : /\ d.ride_id = live.got[1][i].id
                                                 /\ d.status = live.got[1][i].status
                                                 /\ d.wait_time = live.got[1][i].wait_time
              /\ \A c \in 2..Len(live.got) : \A i \in 1..Len(live.got[c]) : d.ride_id # live.got[c][i].id
       /\ \A p \in ParkIds :
              committed'[FinalPath(p, "live.json")] # committed[FinalPath(p, "live.json")] =>
                  committed'[FinalPath(p, "live.json")].last_updated = live'.now
      ]_vars

\* The snapshot of a source has been written with a show, a restaurant and a
\* shop in it, some time after the step began, and the store holds the records
\* of its two attractions and no other, stamped like the snapshot.
C37_Witness ==
    LET snap == committed[FinalPath(PARKS[1], "live.json")]
    IN  /\ runlog["live"][PARKS[1]].wrote
        /\ Len(snap.attractions) = 2 /\ Len(snap.shows) = 1
        /\ Len(snap.restaurants) = 1 /\ Len(snap.shops) = 1
        /\ Cardinality(history) = 2
        /\ \A d \in history : d.timestamp = snap.last_updated /\ d.park_id = PARKS[1]
        /\ clock > snap.last_updated

C39_ParkStatusDerived ==
    \A p \in ParkIds :
        LET snap == committed[FinalPath(p, "live.json")]
            some == \E i \in 1..Len(snap.attractions) : snap.attractions[i].status \in {"open", "open_soon"}
        IN  snap # NoDoc =>
               /\ snap.park_status = "unknown" <=> Len(snap.attractions) = 0
               /\ snap.park_status = "open" <=> some
               /\ snap.park_status = "closed" <=> (Len(snap.attractions) > 0 /\ ~some)

\* A written snapshot of a park that is open by an attraction that opens soon,
\* none being open.
C39_Witness ==
    LET snap == committed[FinalPath(PARKS[1], "live.json")]
    IN  /\ snap # NoDoc
        /\ Len(snap.attractions) = 2
        /\ snap.attractions[1].status = "breakdown"
        /\ snap.attractions[2].status = "open_soon"
        /\ snap.park_status = "open"
        /\ committed[FinalPath(PARKS[2], "live.json")] # NoDoc
        /\ committed[FinalPath(PARKS[2], "live.json")].park_status = "unknown"

\* ------------------------------------------------------------ C40
\* C40: when the upstream request of a source's live step has failed, the step
\* still replaces live.json (unless the write itself fails), the snapshot it
\* leaves has no attractions, shows, restaurants or shops and the park_status
\* unknown, and the step has inserted no history record.
C40_FailedFetchWritesEmptySnapshot ==
    \A p \in ParkIds :
        LET log == runlog["live"][p]
            snap == committed[FinalPath(p, "live.json")]
        IN  (log.outcome # "none" /\ ~log.wfail /\ Len(log.origin) > 0 /\ log.origin[1].kind = "raised") =>
               /\ log.wrote
               /\ snap.last_updated = log.now
               /\ snap.attractions = <<>> /\ snap.shows = <<>>
               /\ snap.restaurants = <<>> /\ snap.shops = <<>>
               /\ snap.park_status = "unknown"
               /\ log.ins = "empty"
               /\ \A d \in history : ~(d.park_id = p /\ d.timestamp = log.now)

====
